---- MODULE Spec2Model ----
(***************************************************************************)
(* A model of the pdf package of ac_pdftools: page-specifier parsing and   *)
(* page removal (pdf/page_utils.go, pdf/remove_pages.go), the unwanted-    *)
(* element analysis (pdf/analyze.go) and the element removal engine        *)
(* (RemoveElementsByIDs / removeImagesByIDs).                              *)
(*                                                                         *)
(* Go strings are modelled as sequences of one-character strings, so that  *)
(* HasPrefix, Index, Split, ToLower, Atoi and fmt.Sprintf are computed on  *)
(* characters as the code computes them.                                   *)
(***************************************************************************)
EXTENDS Integers, Sequences, FiniteSets, TLC

VARIABLES
    pc,                   \* position of the running operation
    files,                \* the files on disk (temp directory)
    calls,                \* external pdfcpu invocations so far, in order, with their outcome
    result,               \* error returned by the operation ("" = nil, "none" = not returned yet)
    totalPages,           \* page count of the input document (what `pdfcpu info` reports)
    listing,              \* rows of the document's image listing
    report,               \* text of the image listing, where the operation reads it as text
    allImages,            \* analyzeImages: the records parsed from the text
    signatures,           \* analyzeImages: the signature computed for each record, in order
    pages,                \* RemovePagesFromPDF: the page specifier text
    pageNumbers,          \* RemovePagesFromPDF: ParsePageSpecifier's result
    elementType,          \* RemoveElementsByIDs: the element type
    elementIDs,           \* RemoveElementsByIDs: the selected candidate IDs
    candidates,           \* removeImagesByIDs: analysis.ImageCandidates
    allImageOccurrences,  \* removeImagesByIDs: the occurrence table
    resolved,             \* removeImagesByIDs: foundOccurrences of each selected candidate
    imagesToRemove,       \* removeImagesByIDs: the removal list
    currentFile,          \* removeImagesByIDs: input of the next update call
    tempFiles             \* removeImagesByIDs: intermediate files created so far

docVars == <<totalPages, listing, report, allImages, signatures>>
pageVars == <<pages, pageNumbers>>
reqVars == <<elementType, elementIDs>>
imgVars == <<candidates, allImageOccurrences, resolved, imagesToRemove, currentFile, tempFiles>>

vars == <<pc, files, calls, result, docVars, pageVars, reqVars, imgVars>>

(***************************************************************************)
(* Bounds of the model.                                                    *)
(***************************************************************************)
MaxSpecLen == 5      \* longest page specifier text
MaxPages == 2        \* largest page count of a document
MaxRows == 3         \* most rows of an image listing
MaxSelected == 2     \* most candidate IDs of a selection

(***************************************************************************)
(* Strings.                                                                *)
(***************************************************************************)
Digits == {"0", "1", "2", "3", "4", "5", "6", "7", "8", "9"}

DigitVal(c) ==
    CASE c = "0" -> 0 [] c = "1" -> 1 [] c = "2" -> 2 [] c = "3" -> 3
      [] c = "4" -> 4 [] c = "5" -> 5 [] c = "6" -> 6 [] c = "7" -> 7
      [] c = "8" -> 8 [] c = "9" -> 9

DigitChar(d) ==
    CASE d = 0 -> "0" [] d = 1 -> "1" [] d = 2 -> "2" [] d = 3 -> "3"
      [] d = 4 -> "4" [] d = 5 -> "5" [] d = 6 -> "6" [] d = 7 -> "7"
      [] d = 8 -> "8" [] d = 9 -> "9"

\* regexp `\s` of page_utils.go:19 and strings.TrimSpace
Whitespace == {" ", "\t", "\n", "\r", "\f"}

\* strings.HasPrefix
HasPrefix(s, p) == Len(p) <= Len(s) /\ SubSeq(s, 1, Len(p)) = p

\* strings.Index(s, sub) as a 1-based position, 0 when absent (Go: -1)
Index(s, sub) ==
    LET hits == {i \in 1..(Len(s) - Len(sub) + 1) : SubSeq(s, i, i + Len(sub) - 1) = sub}
    IN IF hits = {} THEN 0 ELSE CHOOSE i \in hits : \A j \in hits : i <= j

\* strings.LastIndex(s, sub), 1-based, 0 when absent
LastIndex(s, sub) ==
    LET hits == {i \in 1..(Len(s) - Len(sub) + 1) : SubSeq(s, i, i + Len(sub) - 1) = sub}
    IN IF hits = {} THEN 0 ELSE CHOOSE i \in hits : \A j \in hits : i >= j

\* strings.Contains
Contains(s, sub) == Index(s, sub) > 0

\* strings.Split(s, sep) for a one-character separator
RECURSIVE Split(_, _)
Split(s, sep) ==
    LET i == Index(s, <<sep>>)
    IN IF i = 0 THEN <<s>>
       ELSE <<SubSeq(s, 1, i - 1)>> \o Split(SubSeq(s, i + 1, Len(s)), sep)

\* value of a non-empty digit string
RECURSIVE DecimalValue(_)
DecimalValue(s) ==
    IF Len(s) = 0 THEN 0
    ELSE 10 * DecimalValue(SubSeq(s, 1, Len(s) - 1)) + DigitVal(s[Len(s)])

\* strconv.Atoi: an optional sign followed by one or more decimal digits.
\* (Texts of the model are far shorter than the 19 digits at which Atoi
\* reports a range error.)
Atoi(s) ==
    LET signed == Len(s) > 0 /\ s[1] \in {"+", "-"}
        body   == IF signed THEN SubSeq(s, 2, Len(s)) ELSE s
        ok     == Len(body) > 0 /\ \A i \in 1..Len(body) : body[i] \in Digits
    IN [ok  |-> ok,
        val |-> IF ~ok THEN 0
                ELSE IF signed /\ s[1] = "-" THEN 0 - DecimalValue(body)
                ELSE DecimalValue(body)]

\* strconv.Itoa / fmt "%d" for n >= 0
RECURSIVE Itoa(_)
Itoa(n) == IF n < 10 THEN <<DigitChar(n)>> ELSE Itoa(n \div 10) \o <<DigitChar(n % 10)>>

(***************************************************************************)
(* pdf/page_utils.go                                                       *)
(***************************************************************************)
\* the integers start..end in order (the loop of page_utils.go:46-48)
IntRange(start, end) == [i \in 1..(end - start + 1) |-> start + i - 1]

\* sort.Ints
SortInts(s) == SortSeq(s, LAMBDA a, b : a < b)

\* the dedup loop of page_utils.go:61-66: keep an element unless it equals
\* its predecessor
Deduped_KeepsDuplicates(pageList) == pageList

Deduped(pageList) ==
    LET indices == [i \in 1..Len(pageList) |-> i]
        kept    == SelectSeq(indices, LAMBDA i : i = 1 \/ pageList[i] # pageList[i - 1])
    IN [k \in 1..Len(kept) |-> pageList[kept[k]]]

\* one iteration of the loop over the comma-separated parts
\* (page_utils.go:24-57): the pages the part appends, or the error it returns
ParsePart(part) ==
    IF Contains(part, <<"-">>)
    THEN LET rangeParts == Split(part, "-")
         IN IF Len(rangeParts) # 2 THEN [err |-> "invalid range", list |-> <<>>]
            ELSE LET start == Atoi(rangeParts[1])
                     end   == Atoi(rangeParts[2])
                 IN IF ~start.ok THEN [err |-> "invalid start page", list |-> <<>>]
                    ELSE IF ~end.ok THEN [err |-> "invalid end page", list |-> <<>>]
                    ELSE IF start.val > end.val
                    THEN [err |-> "start > end", list |-> <<>>]
                    ELSE [err |-> "", list |-> IntRange(start.val, end.val)]
    ELSE LET pageNum == Atoi(part)
         IN IF ~pageNum.ok THEN [err |-> "invalid page number", list |-> <<>>]
            ELSE [err |-> "", list |-> <<pageNum.val>>]

\* the loop over the parts: stops at the first part in error
RECURSIVE ParseParts(_, _)
ParseParts(parts, pageList) ==
    IF Len(parts) = 0 THEN [err |-> "", list |-> pageList]
    ELSE LET r == ParsePart(Head(parts))
         IN IF r.err # "" THEN [err |-> r.err, list |-> <<>>]
            ELSE ParseParts(Tail(parts), pageList \o r.list)

ParsePageSpecifier(text) ==
    IF text = <<>> THEN [err |-> "empty page specification", list |-> <<>>]
    ELSE LET stripped == SelectSeq(text, LAMBDA c : c \notin Whitespace)
             r        == ParseParts(Split(stripped, ","), <<>>)
         IN IF r.err # "" THEN r
            ELSE [err |-> "", list |-> Deduped(SortInts(r.list))]

ValidatePageNumbers_NoLowerBound(pageList, total) ==
    IF \E i \in 1..Len(pageList) : pageList[i] > total
    THEN "page exceeds total pages" ELSE ""

\* the error ValidatePageNumbers returns ("" = nil): the first offending page
\* decides which
ValidatePageNumbers(pageList, total) ==
    LET bad == {i \in 1..Len(pageList) : pageList[i] < 1 \/ pageList[i] > total}
    IN IF bad = {} THEN ""
       ELSE LET i == CHOOSE k \in bad : \A j \in bad : k <= j
            IN IF pageList[i] < 1 THEN "page numbers must be positive"
               ELSE "page exceeds total pages"

(***************************************************************************)
(* pdf/analyze.go: helpers of the analysis                                 *)
(***************************************************************************)
LowerLetters ==
    <<"a", "b", "c", "d", "e", "f", "g", "h", "i", "j", "k", "l", "m",
      "n", "o", "p", "q", "r", "s", "t", "u", "v", "w", "x", "y", "z">>
UpperLetters ==
    <<"A", "B", "C", "D", "E", "F", "G", "H", "I", "J", "K", "L", "M",
      "N", "O", "P", "Q", "R", "S", "T", "U", "V", "W", "X", "Y", "Z">>

LowerOf(c) ==
    IF \E i \in 1..26 : UpperLetters[i] = c
    THEN LowerLetters[CHOOSE i \in 1..26 : UpperLetters[i] = c] ELSE c

UpperOf(c) ==
    IF \E i \in 1..26 : LowerLetters[i] = c
    THEN UpperLetters[CHOOSE i \in 1..26 : LowerLetters[i] = c] ELSE c

\* strings.ToLower, strings.ToUpper
ToLower(s) == [i \in 1..Len(s) |-> LowerOf(s[i])]
ToUpper(s) == [i \in 1..Len(s) |-> UpperOf(s[i])]

\* strings.TrimSpace
RECURSIVE TrimLeft(_)
TrimLeft(s) == IF Len(s) > 0 /\ s[1] \in Whitespace THEN TrimLeft(Tail(s)) ELSE s
RECURSIVE TrimRight(_)
TrimRight(s) ==
    IF Len(s) > 0 /\ s[Len(s)] \in Whitespace THEN TrimRight(SubSeq(s, 1, Len(s) - 1)) ELSE s
TrimSpace(s) == TrimRight(TrimLeft(s))

\* strings.ReplaceAll(s, c, "") for a one-character c
RemoveChar(s, c) == SelectSeq(s, LAMBDA x : x # c)

S_ImageDash == <<"I", "m", "a", "g", "e", "-">>
S_Image     == <<"I", "m", "a", "g", "e">>
S_Img       == <<"I", "m", "g">>
S_WMDash    == <<"W", "M", "-">>
S_Watermark == <<"W", "a", "t", "e", "r", "m", "a", "r", "k">>
S_unknown   == <<"u", "n", "k", "n", "o", "w", "n">>
S_prefixTag == <<"p", "r", "e", "f", "i", "x", ":">>
S_KB        == <<"K", "B">>

\* analyze.go:839-867
extractIdPrefix(id) ==
    IF HasPrefix(id, S_ImageDash) THEN S_Image
    ELSE IF HasPrefix(id, S_Img) THEN S_Img
    ELSE IF HasPrefix(id, S_WMDash) \/ HasPrefix(id, S_Watermark) THEN S_Watermark
    ELSE IF Contains(id, <<"-">>) /\ Len(Split(id, "-")) > 1 /\ Len(Split(id, "-")[1]) > 0
    THEN Split(id, "-")[1]
    ELSE IF Len(id) >= 3 THEN SubSeq(id, 1, IF Len(id) > 5 THEN 5 ELSE 3)
    ELSE S_unknown

\* strconv.ParseFloat of a text made of digits and dots, as a fraction
\* [n, d] (value n/d); ok is FALSE where ParseFloat returns an error
ParseFloat(numStr) ==
    LET dots == {i \in 1..Len(numStr) : numStr[i] = "."}
        ds   == RemoveChar(numStr, ".")
        ok   == Cardinality(dots) <= 1 /\ Len(ds) > 0
        frac == IF dots = {} THEN 0 ELSE Len(numStr) - (CHOOSE i \in dots : TRUE)
    IN [ok |-> ok, n |-> IF ok THEN DecimalValue(ds) ELSE 0, d |-> 10 ^ frac]

\* analyze.go:745-748: upper case, trimmed, commas and blanks removed
NormalizedSize(sizeStr) == RemoveChar(RemoveChar(TrimSpace(ToUpper(sizeStr)), ","), " ")

\* analyze.go:751-762: the position after the leading digits and dots
NumberEnd(s) ==
    IF \A i \in 1..Len(s) : s[i] \in Digits \cup {"."} THEN Len(s) + 1
    ELSE CHOOSE i \in 1..Len(s) :
             /\ s[i] \notin Digits \cup {"."}
             /\ \A j \in 1..(i - 1) : s[j] \in Digits \cup {"."}

\* analyze.go:773-784: the unit decides the scale
ScaledToKB(num, unit) ==
    IF HasPrefix(unit, <<"K">>) THEN [n |-> num.n, d |-> num.d]
    ELSE IF HasPrefix(unit, <<"M">>) THEN [n |-> num.n * 1024, d |-> num.d]
    ELSE IF HasPrefix(unit, <<"G">>) THEN [n |-> num.n * 1024 * 1024, d |-> num.d]
    ELSE [n |-> num.n, d |-> num.d * 1024]

\* analyze.go:764-771: no number, or a number ParseFloat rejects, is size 0
SizeOfParts(numStr, num, unit) ==
    IF numStr = <<>> \/ ~num.ok THEN [n |-> 0, d |-> 1] ELSE ScaledToKB(num, unit)

SizeOfNormalized(s, stop) ==
    SizeOfParts(SubSeq(s, 1, stop - 1), ParseFloat(SubSeq(s, 1, stop - 1)), SubSeq(s, stop, Len(s)))

SizeOfText(s) == SizeOfNormalized(s, NumberEnd(s))

\* analyze.go:743-785: the size in KB as a fraction [n, d]
parseFileSizeKB(sizeStr) == SizeOfText(NormalizedSize(sizeStr))

\* fmt "%.0f": the nearest integer, ties to even
RoundHalfEven(q) ==
    IF 2 * (q.n % q.d) > q.d THEN (q.n \div q.d) + 1
    ELSE IF 2 * (q.n % q.d) < q.d THEN q.n \div q.d
    ELSE IF (q.n \div q.d) % 2 = 0 THEN q.n \div q.d ELSE (q.n \div q.d) + 1

\* analyze.go:626: fmt.Sprintf("%.0fKB", fileSizeKB)
SizeKeyOf(fileSizeKB) == Itoa(RoundHalfEven(fileSizeKB)) \o S_KB

\* analyze.go:623: fileSizeKB >= MinWatermarkFileSizeKB
MinWatermarkFileSizeKB == 30

MeetsSizeFloor(fileSizeKB) == fileSizeKB.n >= MinWatermarkFileSizeKB * fileSizeKB.d

\* analyze.go:442 and 679: fmt.Sprintf("%dx%d_%s_%s_prefix:%s", ...)
SignatureOf_WithoutPrefix(width, height, colorSpace, size, prefix) ==
    Itoa(width) \o <<"x">> \o Itoa(height) \o <<"_">> \o colorSpace \o <<"_">> \o size

SignatureOf(width, height, colorSpace, size, prefix) ==
    Itoa(width) \o <<"x">> \o Itoa(height) \o <<"_">> \o colorSpace \o <<"_">> \o size
        \o <<"_">> \o S_prefixTag \o prefix

\* analyze.go:499: the test signature of the Pass B representative search,
\* fmt.Sprintf("%dx%d_%s_%s", ...)
TestSignatureOf(width, height, colorSpace, size) ==
    Itoa(width) \o <<"x">> \o Itoa(height) \o <<"_">> \o colorSpace \o <<"_">> \o size

(***************************************************************************)
(* The input document, as `pdfcpu images list` reports it: one row per     *)
(* image occurrence, ordered by page and object number.  The rows are held *)
(* as their fields; both parsers of the listing read the fields page,      *)
(* object and id of a row (and the analysis the further columns).          *)
(***************************************************************************)
Image(obj, id, width, height, colorSpace, size, softMask) ==
    [obj |-> obj, id |-> id, width |-> width, height |-> height,
     colorSpace |-> colorSpace, size |-> size, softMask |-> softMask]

S_RGB  == <<"R", "G", "B">>
S_40KB == <<"4", "0", "K", "B">>
S_12KB == <<"1", "2", "K", "B">>

\* the images a document of the model is made of
ImagePool ==
    << Image(<<"5">>, <<"I", "m", "a", "g", "e", "-", "1">>, 600, 800, S_RGB, S_40KB, FALSE),
       Image(<<"6">>, <<"I", "m", "a", "g", "e", "-", "2">>, 600, 800, S_RGB, S_40KB, FALSE),
       Image(<<"7">>, <<"I", "m", "a", "g", "e", "-", "3">>, 50, 50, S_RGB, S_12KB, FALSE),
       Image(<<"8">>, <<"I", "1">>, 50, 50, S_RGB, S_12KB, TRUE),
       Image(<<"9">>, <<"u", "n", "k", "n", "o", "w", "n", "-", "1">>, 50, 50, S_RGB, S_12KB, FALSE) >>

EmptyImage == Image(<<>>, <<>>, 0, 0, <<>>, <<>>, FALSE)

\* the elements of a sequence
Range(f) == {f[i] : i \in 1..Len(f)}

\* all orderings of a finite set
Perms(S) ==
    {f \in [1..Cardinality(S) -> S] : \A i, j \in 1..Cardinality(S) : f[i] = f[j] => i = j}

\* the listings of a document of T pages: at most MaxRows rows, each image of
\* the pool at most once on a page, in page and object order
Listings(T) ==
    LET slots == (1..T) \X (1..Len(ImagePool))
        key(p) == p[1] * (Len(ImagePool) + 1) + p[2]
    IN {[i \in 1..Cardinality(S) |->
            LET p == CHOOSE q \in S : Cardinality({r \in S : key(r) < key(q)}) = i - 1
            IN [page |-> p[1], img |-> ImagePool[p[2]]]] :
        S \in {X \in SUBSET slots : Cardinality(X) <= MaxRows}}

(***************************************************************************)
(* pdf/analyze.go: analyzeImages                                           *)
(***************************************************************************)
\* analyze.go:332-341, 385-395: a row without page or id is skipped, the
\* others become image records in row order
ParsedImages(rows) == SelectSeq(rows, LAMBDA r : r.page # 0 /\ r.img.id # <<>>)

\* what the analysis derives of an image: the prefix and the signature of
\* its id (analyze.go:440-442), the size and its rounded key (analyze.go:618-626)
Derived(r, prefix, fileSizeKB) ==
    [page |-> r.page, img |-> r.img, prefix |-> prefix,
     signature |-> SignatureOf(r.img.width, r.img.height, r.img.colorSpace, r.img.size, prefix),
     sizeKey |-> SizeKeyOf(fileSizeKB), large |-> MeetsSizeFloor(fileSizeKB)]

AnalysedImage(r) == Derived(r, extractIdPrefix(r.img.id), parseFileSizeKB(r.img.size))

AnalysedRows(parsed) == [i \in 1..Len(parsed) |-> AnalysedImage(parsed[i])]

AnalysedImages(rows) == AnalysedRows(ParsedImages(rows))

\* keys of imagesByPage
PagesWithImages(images) == {images[i].page : i \in 1..Len(images)}

\* analyze.go:437-453: the images in the order the loop over the map
\* imagesByPage visits them, for the page order `po` the map iteration takes
RECURSIVE VisitOrder(_, _)
VisitOrder(images, po) ==
    IF Len(po) = 0 THEN <<>>
    ELSE SelectSeq(images, LAMBDA r : r.page = Head(po)) \o VisitOrder(images, Tail(po))

\* imageSignatures[signature]: the pages, in visiting order
PagesOf(hits) == [i \in 1..Len(hits) |-> hits[i].page]

SignaturePages(visited, signature) ==
    PagesOf(SelectSeq(visited, LAMBDA r : r.signature = signature))

\* imagesByPrefix[prefix] (analyze.go:446-448: "unknown" is left out)
ImagesByPrefix(visited, prefix) ==
    SelectSeq(visited, LAMBDA r : r.prefix = prefix /\ prefix # S_unknown)

\* analyze.go:427, 600: int(float64(totalPages) * MinPageCoverageThreshold).
\* The product of a small page count and the double nearest 0.8 rounds to the
\* double nearest 4T/5, so the truncation is the integer quotient.
MinPagesFor(T) == (T * 4) \div 5

\* analyze.go:667, 675: float64(coverageCount)/float64(totalPages) >= 0.8
MeetsCoverage(coverageCount, T) == 5 * coverageCount >= 4 * T

\* the longest run of consecutive pages ending at position i (analyze.go:877-888)
RECURSIVE RunEndingAt(_, _)
RunEndingAt(pageList, i) ==
    IF i > 1 /\ pageList[i] = pageList[i - 1] + 1 THEN RunEndingAt(pageList, i - 1) + 1 ELSE 1

\* analyze.go:870-893: maxContinuous only records runs that grew
hasContinuousRange(pageList, minLength) ==
    /\ Len(pageList) >= minLength
    /\ \/ minLength <= 0
       \/ \E i \in 2..Len(pageList) :
             pageList[i] = pageList[i - 1] + 1 /\ RunEndingAt(pageList, i) >= minLength

S_fullpage  == <<"f", "u", "l", "l", "p", "a", "g", "e", "_", "w", "a", "t", "e", "r", "m", "a", "r", "k">>
S_repeating == <<"r", "e", "p", "e", "a", "t", "i", "n", "g", "_", "w", "a", "t", "e", "r", "m", "a", "r", "k">>
S_repeatingElement ==
    <<"r", "e", "p", "e", "a", "t", "i", "n", "g", "_", "u", "n", "w", "a", "n", "t", "e", "d", "_",
      "e", "l", "e", "m", "e", "n", "t">>

\* a candidate; its confidence is held as the exact fraction n/d
Candidate(id, ctype, signature, prefix, pageCount, img, confidence) ==
    [ID |-> id, Page |-> 0, type |-> ctype, signature |-> signature, prefix |-> prefix,
     page_count |-> pageCount, object |-> img.obj, image_id |-> img.id,
     confidence |-> confidence]

\* analyze.go:686-697: 0.95 for a group on every page, else
\* 0.80 + coveragePercent * 0.15
WatermarkConfidence(coverageCount, T) ==
    IF coverageCount = T THEN [n |-> 95, d |-> 100]
    ELSE [n |-> 80 * T + 15 * coverageCount, d |-> 100 * T]

\* analyze.go:810-836: 0.4 + pageRatio * 0.6, the size and soft-mask bonuses,
\* capped at 1.0
UncappedConfidence(img, pageCount, T) ==
    40 * T + 60 * pageCount
    + (IF img.width > 300 \/ img.height > 400 THEN 15 * T ELSE 0)
    + (IF img.width > 500 \/ img.height > 700 THEN 15 * T ELSE 0)
    + (IF img.softMask THEN 5 * T ELSE 0)

CappedAtOne(n, d) == [n |-> IF n > d THEN d ELSE n, d |-> d]

calculateRepeatingUnwantedElementConfidence(img, pageCount, T) ==
    CappedAtOne(UncappedConfidence(img, pageCount, T), 100 * T)

\* analyze.go:656-664: the first image of the size group whose id is not
\* empty (the last one when every id is empty)
RepresentativeOf(sizeGroup) ==
    IF \A i \in 1..Len(sizeGroup) : sizeGroup[i].img.id = <<>>
    THEN sizeGroup[Len(sizeGroup)].img
    ELSE sizeGroup[CHOOSE i \in 1..Len(sizeGroup) :
                       /\ sizeGroup[i].img.id # <<>>
                       /\ \A j \in 1..(i - 1) : sizeGroup[j].img.id = <<>>].img

\* analyze.go:618-640: sizeGroups[sizeKey] of a prefix, the images of at
\* least MinWatermarkFileSizeKB with that rounded size
SizeGroup(images, sizeKey) == SelectSeq(images, LAMBDA r : r.large /\ r.sizeKey = sizeKey)

CoverageCount(sizeGroup) == Cardinality({sizeGroup[i].page : i \in 1..Len(sizeGroup)})

\* analyze.go:606, 644, 675: the tests a size group has to pass
QualifiesAsWatermark(images, sizeGroup, T) ==
    /\ Len(images) >= MinPagesFor(T)
    /\ Len(sizeGroup) >= T
    /\ MeetsCoverage(CoverageCount(sizeGroup), T)

\* analyze.go:686-727: the candidate of a size group
WatermarkCandidate(prefix, sizeKey, ctype, rep, coverageCount, confidence) ==
    Candidate(ctype \o <<"_">> \o prefix \o <<"_">> \o sizeKey, ctype,
              SignatureOf(rep.width, rep.height, rep.colorSpace, rep.size, prefix),
              prefix, coverageCount, rep, confidence)

CandidateOfGroup(prefix, sizeKey, sizeGroup, T) ==
    WatermarkCandidate(prefix, sizeKey,
                       IF CoverageCount(sizeGroup) = T THEN S_fullpage ELSE S_repeating,
                       RepresentativeOf(sizeGroup), CoverageCount(sizeGroup),
                       WatermarkConfidence(CoverageCount(sizeGroup), T))

\* analyze.go:598-734 (Pass A): the candidates of detectFullPageUnwantedElements
\* for one visiting order, as a set (their order is the maps' iteration order)
PassACandidates(visited, T) ==
    {CandidateOfGroup(r.prefix, r.sizeKey, SizeGroup(ImagesByPrefix(visited, r.prefix), r.sizeKey), T) :
        r \in {v \in Range(visited) :
                  /\ v.large /\ v.prefix # S_unknown
                  /\ QualifiesAsWatermark(ImagesByPrefix(visited, v.prefix),
                                          SizeGroup(ImagesByPrefix(visited, v.prefix), v.sizeKey), T)}}

\* analyze.go:494-504: the image of the first page whose test signature
\* equals the group's signature, the zero imageInfo when there is none
FirstMatching(onPage, signature) ==
    IF \A i \in 1..Len(onPage) :
           TestSignatureOf(onPage[i].img.width, onPage[i].img.height,
                           onPage[i].img.colorSpace, onPage[i].img.size) # signature
    THEN EmptyImage
    ELSE onPage[CHOOSE i \in 1..Len(onPage) :
                    /\ TestSignatureOf(onPage[i].img.width, onPage[i].img.height,
                                       onPage[i].img.colorSpace, onPage[i].img.size) = signature
                    /\ \A j \in 1..(i - 1) :
                          TestSignatureOf(onPage[j].img.width, onPage[j].img.height,
                                          onPage[j].img.colorSpace, onPage[j].img.size) # signature].img

FirstImageOf(images, firstPage, signature) ==
    FirstMatching(SelectSeq(images, LAMBDA r : r.page = firstPage), signature)

\* analyze.go:507-548: the candidate of a signature
ElementCandidate(signature, pageList, firstImg, maxPages) ==
    Candidate(S_repeatingElement \o <<"_">> \o SubSeq(signature, 1, 8), S_repeatingElement,
              signature, extractIdPrefix(firstImg.id), Len(pageList), firstImg,
              calculateRepeatingUnwantedElementConfidence(firstImg, Len(pageList), maxPages))

CandidateOfSignature(images, signature, pageList, maxPages) ==
    ElementCandidate(signature, pageList, FirstImageOf(images, pageList[1], signature), maxPages)

\* analyze.go:476-551 (Pass B): the candidates of the signatures Pass A has
\* not claimed
PassBCandidates(images, visited, T, handledSignatures) ==
    {CandidateOfSignature(images, sig, SignaturePages(visited, sig), T) :
        sig \in {v.signature : v \in
                    {w \in Range(visited) :
                        /\ w.signature \notin handledSignatures
                        /\ \/ Len(SignaturePages(visited, w.signature)) >= MinPagesFor(T)
                           \/ hasContinuousRange(SignaturePages(visited, w.signature),
                                                 MinPagesFor(T))}}}

\* orderings of Pass A's candidates that keep those of one prefix together
GroupedPerms(passA) ==
    {a \in Perms(passA) :
        \A i, j, k \in 1..Len(a) :
            (i < j /\ j < k /\ a[i].prefix = a[k].prefix) => a[j].prefix = a[i].prefix}

\* analyze.go:467-551: Pass A's candidates, then Pass B's
ListsFrom(passA, images, visited, T) ==
    {a \o b : a \in GroupedPerms(passA),
              b \in Perms(PassBCandidates(images, visited, T, {c.signature : c \in passA}))}

CandidateListsOf(images, T) ==
    UNION {ListsFrom(PassACandidates(VisitOrder(images, po), T), images,
                     VisitOrder(images, po), T) : po \in Perms(PagesWithImages(images))}

\* the candidate lists analyzeImages can return for a document, for every
\* iteration order of its maps
ImageCandidateLists(rows, T) == CandidateListsOf(AnalysedImages(rows), T)

(***************************************************************************)
(* External tool adapter (execCommandWithTimeout): a call is recorded in   *)
(* `calls` with its outcome, which the environment chooses: "ok",          *)
(* "failed" (non-zero exit, output kept) or "timeout" (output dropped).    *)
(* `said` holds the known phrases the combined output contains.            *)
(***************************************************************************)
InFile == <<"input", 0>>
OutFile == <<"output", 0>>
NoFile == <<"none", 0>>

Call(cmd, src, dst, arg, status, said) ==
    [cmd |-> cmd, src |-> src, dst |-> dst, arg |-> arg, status |-> status, said |-> said]

CallsOf(cmd) == {i \in 1..Len(calls) : calls[i].cmd = cmd}

Idle ==
    /\ candidates = <<>>
    /\ allImageOccurrences = <<>>
    /\ resolved = <<>>
    /\ imagesToRemove = <<>>
    /\ currentFile = NoFile
    /\ tempFiles = <<>>

(***************************************************************************)
(* pdf/remove_pages.go: RemovePagesFromPDF(inFile, outFile, pages)         *)
(***************************************************************************)
PageChars == {"0", "1", "2", ",", "-", " "}

PageTexts == UNION {[1..n -> PageChars] : n \in 0..MaxSpecLen}

\* strings.Join(pageStrs, ",") of the "%d" renderings
RECURSIVE JoinPages(_)
JoinPages(pageList) ==
    IF Len(pageList) = 0 THEN <<>>
    ELSE IF Len(pageList) = 1 THEN Itoa(pageList[1])
    ELSE Itoa(pageList[1]) \o <<",">> \o JoinPages(Tail(pageList))

InitPages ==
    /\ pc = "rp_start"
    /\ files = {InFile}
    /\ calls = <<>>
    /\ result = "none"
    /\ totalPages \in 1..MaxPages
    /\ listing = <<>>
    /\ report = <<>> /\ allImages = <<>> /\ signatures = <<>>
    /\ pages \in PageTexts
    /\ pageNumbers = [err |-> "", list |-> <<>>]
    /\ elementType = "" /\ elementIDs = {}
    /\ Idle

\* remove_pages.go:11-14: parse the specifier, return its error
RP_Parse ==
    /\ pc = "rp_start"
    /\ pageNumbers' = ParsePageSpecifier(pages)
    /\ IF pageNumbers'.err # ""
       THEN pc' = "done" /\ result' = pageNumbers'.err
       ELSE pc' = "rp_count" /\ result' = result
    /\ UNCHANGED <<files, calls, docVars, pages, reqVars, imgVars>>

\* remove_pages.go:17-24: getPageCount (pdfcpu info), then ValidatePageNumbers
RP_GetPageCount ==
    /\ pc = "rp_count"
    /\ \/ /\ calls' = Append(calls, Call("info", InFile, NoFile, <<>>, "failed", {}))
          /\ pc' = "done"
          /\ result' = "failed to get page count"
       \/ /\ calls' = Append(calls, Call("info", InFile, NoFile, <<>>, "ok", {}))
          /\ LET v == ValidatePageNumbers(pageNumbers.list, totalPages)
             IN IF v # "" THEN pc' = "done" /\ result' = v
                ELSE pc' = "rp_remove" /\ result' = result
    /\ UNCHANGED <<files, docVars, pageVars, reqVars, imgVars>>

\* remove_pages.go:26-41: pdfcpu pages remove -p <pages> -- inFile outFile
RP_Remove ==
    /\ pc = "rp_remove"
    /\ pc' = "done"
    /\ \/ /\ calls' = Append(calls, Call("pages remove", InFile, OutFile,
                                         JoinPages(pageNumbers.list), "ok", {}))
          /\ result' = ""
          /\ files' = files \cup {OutFile}
       \/ /\ calls' = Append(calls, Call("pages remove", InFile, OutFile,
                                         JoinPages(pageNumbers.list), "failed", {}))
          /\ result' = "pdfcpu remove failed"
          /\ files' \in {files, files \cup {OutFile}}
    /\ UNCHANGED <<docVars, pageVars, reqVars, imgVars>>

NextPages == RP_Parse \/ RP_GetPageCount \/ RP_Remove

SpecPages == InitPages /\ [][NextPages]_vars

(***************************************************************************)
(* remove_elements.go: removeImagesByIDs, occurrence table and resolution  *)
(***************************************************************************)
Occurrence(page, obj, id) == [page |-> page, obj |-> obj, id |-> id]

\* remove_elements.go:135-186: allImageOccurrences, one entry per row with a
\* non-zero page and a non-empty id, in row order
ParseOccurrences(rows) ==
    LET kept == SelectSeq(rows, LAMBDA r : r.page # 0 /\ r.img.id # <<>>)
    IN [i \in 1..Len(kept) |-> Occurrence(kept[i].page, kept[i].img.obj, kept[i].img.id)]

\* strings.IndexAny, 1-based, 0 when absent
IndexAny(s, chars) ==
    IF \E i \in 1..Len(s) : s[i] \in chars
    THEN CHOOSE i \in 1..Len(s) : s[i] \in chars /\ \A j \in 1..(i - 1) : s[j] \notin chars
    ELSE 0

\* remove_elements.go:189-198: the closure extractPrefix (separator included)
extractPrefix(id) ==
    IF Index(id, <<"-">>) > 1 THEN SubSeq(id, 1, Index(id, <<"-">>))
    ELSE IF Index(id, <<"_">>) > 1 THEN SubSeq(id, 1, Index(id, <<"_">>))
    ELSE <<>>

\* remove_elements.go:215-221 (strategy 1): imageOccurrences[imgID]
Strategy1(c, occs) ==
    IF c.image_id # <<>> THEN SelectSeq(occs, LAMBDA o : o.id = c.image_id) ELSE <<>>

\* remove_elements.go:224-239 (strategy 2): the stored prefix
Strategy2(c, occs) ==
    IF c.prefix # <<>>
    THEN SelectSeq(occs, LAMBDA o :
             \/ HasPrefix(o.id, c.prefix)
             \/ HasPrefix(o.id, c.prefix \o <<"-">>)
             \/ HasPrefix(o.id, c.prefix \o <<"_">>)
             \/ extractPrefix(o.id) = c.prefix)
    ELSE <<>>

\* remove_elements.go:252-254: cut at the first blank
CutAtBlank(rest, spaceIdx) == IF spaceIdx > 1 THEN SubSeq(rest, 1, spaceIdx - 1) ELSE rest

\* remove_elements.go:248-255: the text after the last "prefix:"
PrefixInSignature(signature, prefixIdx) ==
    IF prefixIdx > 0
    THEN CutAtBlank(TrimSpace(SubSeq(signature, prefixIdx + 7, Len(signature))),
                    IndexAny(TrimSpace(SubSeq(signature, prefixIdx + 7, Len(signature))),
                             {" ", "\t", "\n"}))
    ELSE <<>>

\* remove_elements.go:258-261: the signature's prefix, else the stored one
PrefixToMatch(sigPrefix, prefix) == IF sigPrefix # <<>> THEN sigPrefix ELSE prefix

SignaturePrefix(c) ==
    PrefixToMatch(PrefixInSignature(c.signature, LastIndex(c.signature, S_prefixTag)), c.prefix)

\* remove_elements.go:272-308: the occurrences the prefix matches in one of
\* its spellings
MatchedByPrefix(occs, prefixLower, prefixUpper, prefixTitle) ==
    SelectSeq(occs, LAMBDA o :
        \/ HasPrefix(ToLower(o.id), prefixLower)
        \/ HasPrefix(ToLower(o.id), prefixLower \o <<"-">>)
        \/ HasPrefix(ToLower(o.id), prefixLower \o <<"_">>)
        \/ ToLower(extractPrefix(o.id)) = prefixLower
        \/ HasPrefix(ToLower(extractPrefix(o.id)), prefixLower)
        \/ HasPrefix(o.id, prefixTitle)
        \/ HasPrefix(o.id, prefixTitle \o <<"-">>)
        \/ HasPrefix(o.id, prefixTitle \o <<"_">>)
        \/ HasPrefix(o.id, prefixUpper)
        \/ HasPrefix(o.id, prefixUpper \o <<"-">>)
        \/ HasPrefix(o.id, prefixUpper \o <<"_">>))

\* remove_elements.go:264-270
MatchedBySignature(signature, prefix, occs) ==
    IF signature # <<>> /\ prefix # <<>> /\ prefix # S_unknown
    THEN MatchedByPrefix(occs, ToLower(prefix), ToUpper(prefix),
                         ToUpper(SubSeq(prefix, 1, 1)) \o ToLower(SubSeq(prefix, 2, Len(prefix))))
    ELSE <<>>

\* remove_elements.go:242-315 (strategy 3): the signature-derived prefix,
\* compared without regard to case
Strategy3(c, occs) == MatchedBySignature(c.signature, SignaturePrefix(c), occs)

FirstOf(hits) == IF Len(hits) > 0 THEN <<hits[1]>> ELSE <<>>

\* remove_elements.go:318-343 (strategy 4): the one occurrence on the
\* candidate's page, by id when there is one, by object otherwise
Strategy4(c, occs) ==
    IF c.object # <<>> /\ c.Page > 0
    THEN IF c.image_id # <<>>
         THEN FirstOf(SelectSeq(occs, LAMBDA o : o.id = c.image_id /\ o.page = c.Page))
         ELSE FirstOf(SelectSeq(occs, LAMBDA o : o.obj = c.object /\ o.page = c.Page))
    ELSE <<>>

\* `if len(foundOccurrences) == 0 { ... }` of remove_elements.go:224, 242, 318
OrElse(foundOccurrences, next) == IF Len(foundOccurrences) = 0 THEN next ELSE foundOccurrences

\* a resolution that lets the prefix strategy add to the exact matches
ResolveCandidate_PrefixAlways(c, occs) ==
    OrElse(OrElse(Strategy1(c, occs) \o Strategy2(c, occs), Strategy3(c, occs)), Strategy4(c, occs))

\* remove_elements.go:213-343: foundOccurrences of one selected candidate
ResolveCandidate(c, occs) ==
    OrElse(OrElse(OrElse(Strategy1(c, occs), Strategy2(c, occs)), Strategy3(c, occs)),
           Strategy4(c, occs))

\* remove_elements.go:104-107: the set of selected IDs
SelectedIDs(ids) == {TrimSpace(id) : id \in ids}

\* a candidate loop that gives up at the first selected candidate without
\* occurrences
RECURSIVE ResolveAll_StopAtMiss(_, _, _)
ResolveAll_StopAtMiss(cands, selected, occs) ==
    IF Len(cands) = 0 THEN <<>>
    ELSE IF Head(cands).ID \notin selected
         THEN ResolveAll_StopAtMiss(Tail(cands), selected, occs)
         ELSE <<[cand |-> Head(cands), found |-> ResolveCandidate(Head(cands), occs)]>>
                  \o ResolveAll_StopAtMiss(
                         IF Len(Strategy1(Head(cands), occs)) + Len(Strategy2(Head(cands), occs))
                            + Len(Strategy3(Head(cands), occs)) + Len(Strategy4(Head(cands), occs)) = 0
                         THEN <<>> ELSE Tail(cands), selected, occs)

\* remove_elements.go:201-359: the loop over analysis.ImageCandidates; one
\* entry per selected candidate, in candidate order
RECURSIVE ResolveAll(_, _, _)
ResolveAll(cands, selected, occs) ==
    IF Len(cands) = 0 THEN <<>>
    ELSE IF Head(cands).ID \notin selected
         THEN ResolveAll(Tail(cands), selected, occs)
         ELSE <<[cand |-> Head(cands), found |-> ResolveCandidate(Head(cands), occs)]>>
                  \o ResolveAll(Tail(cands), selected, occs)

\* remove_elements.go:346-353: the removal list, the found occurrences of
\* the selected candidates one after another
RECURSIVE RemovalList(_)
RemovalList(res) ==
    IF Len(res) = 0 THEN <<>> ELSE Head(res).found \o RemovalList(Tail(res))

(***************************************************************************)
(* remove_elements.go: RemoveElementsByIDs(inFile, outFile, elementType,   *)
(* elementIDs)                                                             *)
(***************************************************************************)
Blank == <<"blank_1x1.png", 0>>
Temp(i) == <<"temp", i>>

NoWatermarksFound == "no watermarks found"
NoStampsFound == "no stamps found"
Phrases == {NoWatermarksFound, NoStampsFound}

E_InvalidType == "invalid element type"
E_NeedsIDs == "image removal requires element IDs"
E_WatermarkFailed == "pdfcpu watermark remove failed"
E_StampFailed == "pdfcpu stamp remove also failed"
E_Unsupported == "images are embedded as regular content"
E_Analyze == "failed to analyze PDF to find images"
E_List == "failed to list images"
E_NoMatch == "no matching images found for selected IDs"
E_Blank == "failed to create blank image"
E_Identify == "cannot identify image for removal"
E_Update == "failed to remove image"

ElementTypes == {"watermark", "image", "text"}

BogusID == <<"n", "o", "n", "e">>

\* the candidate IDs an analysis of the document can show
PossibleIDs(rows, T) ==
    UNION {{a[i].ID : i \in 1..Len(a)} : a \in ImageCandidateLists(rows, T)}

Selections(rows, T) ==
    {X \in SUBSET (PossibleIDs(rows, T) \cup {BogusID}) : Cardinality(X) <= MaxSelected}

Init ==
    /\ pc = "re_start"
    /\ files = {InFile}
    /\ calls = <<>>
    /\ result = "none"
    /\ totalPages \in 1..MaxPages
    /\ listing \in Listings(totalPages)
    /\ report = <<>> /\ allImages = <<>> /\ signatures = <<>>
    /\ pages = <<>>
    /\ pageNumbers = [err |-> "", list |-> <<>>]
    /\ elementType \in ElementTypes
    /\ elementIDs \in IF elementType = "image" THEN Selections(listing, totalPages) ELSE {{}}
    /\ Idle

\* remove_elements.go:24-28, 79-89: validation of the type and dispatch
RE_Start ==
    /\ pc = "re_start"
    /\ IF elementType \notin {"watermark", "image"}
       THEN pc' = "done" /\ result' = E_InvalidType
       ELSE IF elementType = "watermark"
       THEN pc' = "wm_primary" /\ result' = result
       ELSE IF elementIDs = {}
       THEN pc' = "done" /\ result' = E_NeedsIDs
       ELSE pc' = "ri_analyze" /\ result' = result
    /\ UNCHANGED <<files, calls, docVars, pageVars, reqVars, imgVars>>

\* remove_elements.go:40
ReportsNothingFound_Always(said) == TRUE

ReportsNothingFound(said) == NoWatermarksFound \in said \/ NoStampsFound \in said

\* remove_elements.go:53
StampReportsNothingFound(said) == NoStampsFound \in said

\* what the tool can have left at its output path: nothing on a success is
\* not possible, on a failure both are
Written(status, dst) == IF status = "ok" THEN {files \cup {dst}} ELSE {files, files \cup {dst}}

\* the outputs a call of that status can give the caller
Outputs(status) == IF status = "failed" THEN SUBSET Phrases ELSE {{}}

\* remove_elements.go:34-75: pdfcpu watermark remove -- inFile outFile
WM_Primary ==
    /\ pc = "wm_primary"
    /\ \E status \in {"ok", "failed", "timeout"} :
       \E said \in Outputs(status) :
          /\ calls' = Append(calls, Call("watermark remove", InFile, OutFile, <<>>, status, said))
          /\ files' \in Written(status, OutFile)
          /\ IF status = "ok" THEN pc' = "done" /\ result' = ""
             ELSE IF ReportsNothingFound(said) THEN pc' = "wm_stamp" /\ result' = result
             ELSE pc' = "done" /\ result' = E_WatermarkFailed
    /\ UNCHANGED <<docVars, pageVars, reqVars, imgVars>>

\* remove_elements.go:43-62: pdfcpu stamp remove -- inFile outFile
WM_Stamp ==
    /\ pc = "wm_stamp"
    /\ \E status \in {"ok", "failed", "timeout"} :
       \E said \in Outputs(status) :
          /\ calls' = Append(calls, Call("stamp remove", InFile, OutFile, <<>>, status, said))
          /\ files' \in Written(status, OutFile)
          /\ pc' = "done"
          /\ result' = IF status = "ok" THEN ""
                       ELSE IF StampReportsNothingFound(said) THEN E_Unsupported
                       ELSE E_StampFailed
    /\ UNCHANGED <<docVars, pageVars, reqVars, imgVars>>

\* remove_elements.go:98-101: AnalyzeUnwantedElements (analyze.go:68-130),
\* pdfcpu info and pdfcpu images list
RI_Analyze ==
    /\ pc = "ri_analyze"
    /\ \/ /\ calls' = Append(calls, Call("info", InFile, NoFile, <<>>, "failed", {}))
          /\ pc' = "done" /\ result' = E_Analyze
          /\ candidates' = candidates
       \/ /\ calls' = calls \o <<Call("info", InFile, NoFile, <<>>, "ok", {}),
                                 Call("images list", InFile, NoFile, <<>>, "failed", {})>>
          /\ pc' = "done" /\ result' = E_Analyze
          /\ candidates' = candidates
       \/ /\ calls' = calls \o <<Call("info", InFile, NoFile, <<>>, "ok", {}),
                                 Call("images list", InFile, NoFile, <<>>, "ok", {})>>
          /\ pc' = "ri_resolve" /\ result' = result
          /\ candidates' \in ImageCandidateLists(listing, totalPages)
    /\ UNCHANGED <<files, docVars, pageVars, reqVars, allImageOccurrences, resolved,
                   imagesToRemove, currentFile, tempFiles>>

\* remove_elements.go:361
NoMatchingImages_Never(toRemove) == FALSE

NoMatchingImages(toRemove) == Len(toRemove) = 0

\* remove_elements.go:119-363: pdfcpu images list, the occurrence table, the
\* resolution of the selected candidates and the removal list
RI_ListAndResolve ==
    /\ pc = "ri_resolve"
    /\ \/ /\ calls' = Append(calls, Call("images list", InFile, NoFile, <<>>, "failed", {}))
          /\ pc' = "done" /\ result' = E_List
          /\ UNCHANGED <<allImageOccurrences, resolved, imagesToRemove>>
       \/ /\ calls' = Append(calls, Call("images list", InFile, NoFile, <<>>, "ok", {}))
          /\ allImageOccurrences' = ParseOccurrences(listing)
          /\ resolved' = ResolveAll(candidates, SelectedIDs(elementIDs), allImageOccurrences')
          /\ imagesToRemove' = RemovalList(resolved')
          /\ IF NoMatchingImages(imagesToRemove')
             THEN pc' = "done" /\ result' = E_NoMatch
             ELSE pc' = "ri_blank" /\ result' = result
    /\ UNCHANGED <<files, docVars, pageVars, reqVars, candidates, currentFile, tempFiles>>

\* remove_elements.go:366-375: createBlankImage (435-460) in the directory of
\* the output file, then the start of the chain
RI_CreateBlank ==
    /\ pc = "ri_blank"
    /\ \/ /\ pc' = "done" /\ result' = E_Blank
          /\ UNCHANGED <<files, currentFile, tempFiles>>
       \/ /\ currentFile' = InFile
          /\ tempFiles' = <<>>
          /\ IF Len(imagesToRemove) = 0
             THEN pc' = "done" /\ result' = "" /\ files' = files
             ELSE pc' = "ri_update" /\ result' = result /\ files' = files \cup {Blank}
    /\ UNCHANGED <<calls, docVars, pageVars, reqVars, candidates, allImageOccurrences,
                   resolved, imagesToRemove>>

\* remove_elements.go:391-398: the selector of an update call, the object
\* number, else "page id"
SelectorOf(img) ==
    IF img.obj # <<>> THEN img.obj ELSE Itoa(img.page) \o <<" ">> \o img.id

CanIdentify(img) == img.obj # <<>> \/ (img.page > 0 /\ img.id # <<>>)

\* a chain that keeps reading the source document
NextCurrentFile_Stays(i, n, tempFile, current) == current

\* remove_elements.go:419-421
NextCurrentFile(i, n, tempFile, current) == IF i < n - 1 THEN tempFile ELSE current

\* an error path that leaves the intermediate files behind
CleanupOnError_Nothing(fs, temps) == fs

\* remove_elements.go:400-402, 408-410: os.Remove of every temp file
CleanupOnError(fs, temps) == fs \ Range(temps)

\* remove_elements.go:425-429
FinalCleanup(fs, temps) == fs \ (Range(temps) \ {OutFile})

\* remove_elements.go:377-431: one turn of the loop over imagesToRemove, with
\* the clean-up of its return paths and the deferred removal of the blank
RI_Update ==
    /\ pc = "ri_update"
    /\ LET n        == Len(imagesToRemove)
           i        == Cardinality(CallsOf("images update"))
           img      == imagesToRemove[i + 1]
           tempFile == IF i = n - 1 THEN OutFile ELSE Temp(i)
           temps    == IF i = n - 1 THEN tempFiles ELSE Append(tempFiles, tempFile)
       IN /\ tempFiles' = temps
          /\ IF ~CanIdentify(img)
             THEN /\ pc' = "done" /\ result' = E_Identify
                  /\ files' = CleanupOnError(files, temps) \ {Blank}
                  /\ UNCHANGED <<calls, currentFile>>
             ELSE \E status \in {"ok", "failed"} :
                  \E written \in Written(status, tempFile) :
                     /\ calls' = Append(calls, Call("images update", currentFile, tempFile,
                                                    SelectorOf(img), status, {}))
                     /\ IF status # "ok"
                        THEN /\ pc' = "done" /\ result' = E_Update
                             /\ files' = CleanupOnError(written, temps) \ {Blank}
                             /\ currentFile' = currentFile
                        ELSE /\ currentFile' = NextCurrentFile(i, n, tempFile, currentFile)
                             /\ IF i = n - 1
                                THEN /\ pc' = "done" /\ result' = ""
                                     /\ files' = FinalCleanup(written, temps) \ {Blank}
                                ELSE /\ pc' = "ri_update" /\ result' = result
                                     /\ files' = written
    /\ UNCHANGED <<docVars, pageVars, reqVars, candidates, allImageOccurrences, resolved,
                   imagesToRemove>>

Next ==
    \/ RE_Start
    \/ WM_Primary
    \/ WM_Stamp
    \/ RI_Analyze
    \/ RI_ListAndResolve
    \/ RI_CreateBlank
    \/ RI_Update

Spec == Init /\ [][Next]_vars

(***************************************************************************)
(* Properties of the removal of selected images.                           *)
(***************************************************************************)
UpdateCalls == SelectSeq(calls, LAMBDA k : k.cmd = "images update")

IsSelected(c) == c.ID \in SelectedIDs(elementIDs)

\* the resolution stage has been reached: the second listing was read
ResolutionRan ==
    /\ elementType = "image"
    /\ Len(calls) >= 3
    /\ calls[3].cmd = "images list" /\ calls[3].status = "ok"

\* the occurrences a candidate stands for: the images of its prefix and
\* rounded size (Pass A), or of its signature (Pass B)
GroupOf(c, images) ==
    IF c.type = S_repeatingElement
    THEN {r \in Range(images) : r.signature = c.signature}
    ELSE {r \in Range(images) :
             r.large /\ r.prefix = c.prefix
                /\ c.ID = c.type \o <<"_">> \o c.prefix \o <<"_">> \o r.sizeKey}

EveryOccurrenceUpdated(group, updates) ==
    \A r \in group : \E k \in 1..Len(updates) : updates[k].arg = r.img.obj

\* C1: after a successful removal, every occurrence of the group of every
\* selected candidate has been given an images-update call, also when the
\* image ids differ from page to page.
C1_EveryOccurrenceOfGroupRemoved ==
    (pc = "done" /\ result = "" /\ elementType = "image") =>
        \A c \in Range(candidates) :
            IsSelected(c) => EveryOccurrenceUpdated(GroupOf(c, AnalysedImages(listing)), UpdateCalls)

\* occurrences whose id equals the stored image_id
ExactMatches(c, occs) ==
    SelectSeq(occs, LAMBDA o : c.image_id # <<>> /\ o.id = c.image_id)

\* occurrences whose id starts with the stored prefix, or whose own prefix
\* (separator included) is the stored prefix
PrefixMatches(c, occs) ==
    SelectSeq(occs, LAMBDA o :
        c.prefix # <<>> /\ (HasPrefix(o.id, c.prefix) \/ extractPrefix(o.id) = c.prefix))

FirstNonEmpty(a, b, c, d) ==
    IF a # <<>> THEN a ELSE IF b # <<>> THEN b ELSE IF c # <<>> THEN c ELSE d

\* C2: the occurrences resolved for a selected candidate are exactly the
\* match set of the first of the strategies exact id, stored prefix,
\* signature-derived prefix, single occurrence that matches anything; no later
\* strategy adds to it.
C2_FirstMatchingStrategyWins ==
    \A i \in 1..Len(resolved) :
        resolved[i].found =
            FirstNonEmpty(ExactMatches(resolved[i].cand, allImageOccurrences),
                          PrefixMatches(resolved[i].cand, allImageOccurrences),
                          Strategy3(resolved[i].cand, allImageOccurrences),
                          Strategy4(resolved[i].cand, allImageOccurrences))

\* a candidate without exact matches was resolved by its stored prefix, while
\* the signature-derived prefix would have matched other occurrences
C2_Witness ==
    /\ pc = "done" /\ result = ""
    /\ \E i \in 1..Len(resolved) :
          /\ ExactMatches(resolved[i].cand, allImageOccurrences) = <<>>
          /\ resolved[i].found # <<>>
          /\ resolved[i].found = PrefixMatches(resolved[i].cand, allImageOccurrences)
          /\ \E o \in Range(Strategy3(resolved[i].cand, allImageOccurrences)) :
                o \notin Range(resolved[i].found)

NothingResolved ==
    \A c \in Range(candidates) :
        IsSelected(c) => ResolveCandidate(c, ParseOccurrences(listing)) = <<>>

\* C3: once the resolution stage is reached, the no-matching-images error is
\* returned exactly when no selected candidate resolves to any occurrence; it
\* is returned before any update call and before any file is created.
C3_NoMatchIffNothingResolved ==
    /\ (pc = "done" /\ ResolutionRan) => ((result = E_NoMatch) <=> NothingResolved)
    /\ result = E_NoMatch =>
          /\ ResolutionRan
          /\ UpdateCalls = <<>>
          /\ files = {InFile}

\* a selection that names no candidate of an analysis that has candidates
C3_Witness ==
    /\ pc = "done" /\ result = E_NoMatch
    /\ elementIDs = {BogusID}
    /\ candidates # <<>>
    /\ allImageOccurrences # <<>>

\* C4: every occurrence resolved for a selected candidate is on the removal
\* list, whatever other selected candidates resolve to, and nothing else is;
\* when the chain succeeds each of them has had its update call.
C4_UnresolvedCandidateDoesNotAbort ==
    (ResolutionRan /\ pc # "ri_resolve") =>
        /\ \A c \in Range(candidates) :
              IsSelected(c) =>
                 \A o \in Range(ResolveCandidate(c, allImageOccurrences)) :
                    /\ o \in Range(imagesToRemove)
                    /\ (pc = "done" /\ result = "") =>
                          \E k \in 1..Len(UpdateCalls) : UpdateCalls[k].arg = SelectorOf(o)
        /\ \A o \in Range(imagesToRemove) :
              \E c \in Range(candidates) :
                 IsSelected(c) /\ o \in Range(ResolveCandidate(c, allImageOccurrences))

\* a batch whose first selected candidate resolved to nothing and whose later
\* one was removed
C4_Witness ==
    /\ pc = "done" /\ result = ""
    /\ Len(resolved) >= 2
    /\ resolved[1].found = <<>>
    /\ resolved[Len(resolved)].found # <<>>
    /\ Len(UpdateCalls) = Len(resolved[Len(resolved)].found)

\* each call of the chain reads what the call before it wrote, after that
\* call succeeded, and writes a file no earlier call wrote
ChainedFrom(updates, source) ==
    \A k \in 1..Len(updates) :
        /\ updates[k].src = IF k = 1 THEN source ELSE updates[k - 1].dst
        /\ k > 1 => updates[k - 1].status = "ok"
        /\ updates[k].dst # source
        /\ \A j \in 1..(k - 1) : updates[j].dst # updates[k].dst

\* C5: the update calls form one chain: the first reads the source document,
\* each next one reads the file its predecessor wrote, one call per resolved
\* occurrence in the order of the removal list; a chain that succeeds has
\* exactly N calls and its last call writes the requested output.
C5_ChainOfSequentialUpdates ==
    /\ ChainedFrom(UpdateCalls, InFile)
    /\ Len(UpdateCalls) <= Len(imagesToRemove)
    /\ \A k \in 1..Len(UpdateCalls) : UpdateCalls[k].arg = SelectorOf(imagesToRemove[k])
    /\ (pc = "done" /\ result = "" /\ elementType = "image") =>
          /\ Len(imagesToRemove) >= 1
          /\ Len(UpdateCalls) = Len(imagesToRemove)
          /\ \A k \in 1..Len(UpdateCalls) : UpdateCalls[k].status = "ok"
          /\ UpdateCalls[Len(UpdateCalls)].dst = OutFile

\* a chain of three calls has run to its end
C5_Witness ==
    /\ pc = "done" /\ result = ""
    /\ Len(UpdateCalls) = 3
    /\ UpdateCalls[3].src = Temp(1)
    /\ UpdateCalls[3].dst = OutFile

IsScratchFile(f) == f = Blank \/ f[1] = "temp"

\* C6: when the removal of selected images has returned, no intermediate
\* file and no blank placeholder is on disk, after a success only the source
\* and the output are, and a failed update call is the last call made.
C6_NoScratchFilesLeft ==
    /\ (pc = "done" /\ elementType = "image") =>
          /\ \A f \in files : ~IsScratchFile(f)
          /\ result = "" => files = {InFile, OutFile}
    /\ \A k \in 1..Len(calls) :
          (calls[k].cmd = "images update" /\ calls[k].status # "ok") =>
              k = Len(calls) /\ pc = "done" /\ result = E_Update

\* the second call of a chain of three failed: the intermediate files of the
\* first two calls have been removed again, and so has the blank placeholder
C6_Witness ==
    /\ pc = "done" /\ result = E_Update
    /\ Len(UpdateCalls) = 2
    /\ Len(imagesToRemove) = 3
    /\ tempFiles = <<Temp(0), Temp(1)>>
    /\ files = {InFile}

\* C7: in watermark mode the only external calls are one "watermark remove"
\* and, after it, at most one "stamp remove", which is made only when the
\* first failed and its output reports that nothing was found.
C7_WatermarkModeCalls ==
    elementType = "watermark" =>
        /\ Len(calls) <= 2
        /\ pc = "done" => Len(calls) >= 1
        /\ \A k \in 1..Len(calls) :
              calls[k].cmd = IF k = 1 THEN "watermark remove" ELSE "stamp remove"
        /\ Len(calls) = 2 =>
              /\ calls[1].status = "failed"
              /\ calls[1].said \cap Phrases # {}
        /\ pc = "wm_stamp" =>
              /\ Len(calls) = 1
              /\ calls[1].status = "failed"
              /\ calls[1].said \cap Phrases # {}

\* the first call failed saying "no stamps found" only, and the stamp
\* removal then succeeded
C7_Witness ==
    /\ elementType = "watermark"
    /\ pc = "done" /\ result = ""
    /\ Len(calls) = 2
    /\ calls[1].said = {NoStampsFound}
    /\ calls[2].cmd = "stamp remove" /\ calls[2].status = "ok"

\* C8: in watermark mode, when the stamp removal fails too, the result is
\* the error for images embedded as ordinary content exactly when the stamp
\* call's output reports that nothing was found, in either phrase;
\* otherwise it is the generic failure.
C8_BothNothingFoundIsUnsupported ==
    (elementType = "watermark" /\ pc = "done" /\ Len(calls) = 2 /\ calls[2].status # "ok") =>
        /\ (calls[2].said \cap Phrases # {}) => result = E_Unsupported
        /\ (calls[2].said \cap Phrases = {}) => result = E_StampFailed

(***************************************************************************)
(* Page specifiers, read independently of the parser: the text without     *)
(* whitespace is cut at its commas; a part names pages when it is a        *)
(* decimal number, or two decimal numbers around one dash with             *)
(* start <= end.                                                           *)
(***************************************************************************)
SpecParts(text) ==
    LET s    == SelectSeq(text, LAMBDA c : c \notin Whitespace)
        cuts == {0, Len(s) + 1} \cup {i \in 1..Len(s) : s[i] = ","}
    IN {SubSeq(s, a + 1, b - 1) :
            <<a, b>> \in {p \in cuts \X cuts :
                            p[1] < p[2] /\ ~\E c \in cuts : p[1] < c /\ c < p[2]}}

IsNumber(t) == Len(t) > 0 /\ \A i \in 1..Len(t) : t[i] \in Digits

IsPageRange(t) ==
    \E k \in 1..Len(t) :
        /\ t[k] = "-"
        /\ IsNumber(SubSeq(t, 1, k - 1))
        /\ IsNumber(SubSeq(t, k + 1, Len(t)))
        /\ DecimalValue(SubSeq(t, 1, k - 1)) <= DecimalValue(SubSeq(t, k + 1, Len(t)))

PagesNamed(t) ==
    IF IsNumber(t) THEN {DecimalValue(t)}
    ELSE LET k == CHOOSE i \in 1..Len(t) : t[i] = "-"
         IN DecimalValue(SubSeq(t, 1, k - 1))..DecimalValue(SubSeq(t, k + 1, Len(t)))

WellFormedSpecifier(text) ==
    text # <<>> /\ \A t \in SpecParts(text) : IsNumber(t) \/ IsPageRange(t)

AllPagesNamed(text) == UNION {PagesNamed(t) : t \in SpecParts(text)}

StrictlyAscending(s) == \A i \in 1..(Len(s) - 1) : s[i] < s[i + 1]

C10_RemoveOnlyValidated ==
    /\ CallsOf("pages remove") # {} =>
          /\ WellFormedSpecifier(pages)
          /\ \A p \in AllPagesNamed(pages) : 1 <= p /\ p <= totalPages
    /\ (pc = "done" /\ ~WellFormedSpecifier(pages)) =>
          /\ calls = <<>>
          /\ result \notin {"", "none"}
          /\ OutFile \notin files
    /\ (pc = "done" /\ WellFormedSpecifier(pages)
          /\ \E p \in AllPagesNamed(pages) : p < 1 \/ p > totalPages) =>
          /\ Len(calls) = 1 /\ calls[1].cmd = "info"
          /\ result \notin {"", "none"}
          /\ OutFile \notin files

\* the specifier "0" was rejected after the page-count query
C10_Witness ==
    /\ pc = "done"
    /\ pages = <<"0">>
    /\ result = "page numbers must be positive"
    /\ Len(calls) = 1

(***************************************************************************)
(* The image listing as text: the parser of analyzeImages                  *)
(* (analyze.go:183-396) and the one of removeImagesByIDs                   *)
(* (remove_elements.go:135-186).                                           *)
(***************************************************************************)
MaxLines == 3       \* most lines of a listing text

\* the box-drawing rune U+2502, one character of a text
Box == "box"
Tab == "\t"
NL == "\n"

S_Page == <<"P", "a", "g", "e">>
S_Obj == <<"O", "b", "j">>
S_Type == <<"T", "y", "p", "e">>
S_Id == <<"I", "d">>
S_ID == <<"I", "D">>
S_imagesAvailable == <<"i", "m", "a", "g", "e", "s", " ", "a", "v", "a", "i", "l", "a", "b", "l", "e">>
S_totalImages == <<"t", "o", "t", "a", "l", " ", "i", "m", "a", "g", "e", "s">>
S_noImages == <<"n", "o", " ", "i", "m", "a", "g", "e", "s">>
S_MB == <<"M", "B">>

\* analyze.go:202: the header test of the analysis
IsHeaderLine(lineTrimmed) ==
    /\ Contains(lineTrimmed, S_Page)
    /\ \/ Contains(lineTrimmed, S_Obj) \/ Contains(lineTrimmed, S_Type)
       \/ Contains(lineTrimmed, S_Id) \/ Contains(lineTrimmed, S_ID)

\* analyze.go:218-220
IsSummaryLine(lower) ==
    \/ Contains(lower, S_imagesAvailable)
    \/ Contains(lower, S_totalImages)
    \/ Contains(lower, S_noImages)

\* analyze.go:228: regexp `^[\s|\-=_]+$` with the box-drawing rune in the class
IsSeparatorLine(lineTrimmed) ==
    /\ Len(lineTrimmed) > 0
    /\ \A i \in 1..Len(lineTrimmed) : lineTrimmed[i] \in Whitespace \cup {Box, "|", "-", "=", "_"}

\* end of the run of whitespace that starts at position i
RECURSIVE BlankRunEnd(_, _)
BlankRunEnd(s, i) ==
    IF i < Len(s) /\ s[i + 1] \in Whitespace THEN BlankRunEnd(s, i + 1) ELSE i

\* analyze.go:246: regexp `\s{2,}` Split(line, -1)
RECURSIVE SplitOnBlanks(_)
SplitOnBlanks(s) ==
    IF \A i \in 1..(Len(s) - 1) : ~(s[i] \in Whitespace /\ s[i + 1] \in Whitespace)
    THEN <<s>>
    ELSE LET i == CHOOSE k \in 1..(Len(s) - 1) :
                      /\ s[k] \in Whitespace /\ s[k + 1] \in Whitespace
                      /\ \A j \in 1..(k - 1) : ~(s[j] \in Whitespace /\ s[j + 1] \in Whitespace)
         IN <<SubSeq(s, 1, i - 1)>> \o SplitOnBlanks(SubSeq(s, BlankRunEnd(s, i) + 1, Len(s)))

\* analyze.go:236-247: the separator style is chosen by the characters the
\* line contains
SplitRow(line) ==
    IF Contains(line, <<Box>>) THEN Split(line, Box)
    ELSE IF Contains(line, <<"|">>) THEN Split(line, "|")
    ELSE IF Contains(line, <<Tab>>) THEN Split(line, Tab)
    ELSE SplitOnBlanks(line)

\* analyze.go:250-261: the parts trimmed, the empty ones dropped
NonEmptyParts_KeepsEmpty(parts) == [i \in 1..Len(parts) |-> TrimSpace(parts[i])]

NonEmptyParts(parts) ==
    SelectSeq([i \in 1..Len(parts) |-> TrimSpace(parts[i])], LAMBDA p : p # <<>>)

\* parts[i], empty when the row has no such column (analyze.go:281-318)
Part(parts, i) == IF Len(parts) > i THEN parts[i + 1] ELSE <<>>

\* the first part from position `from` on that satisfies Test, else empty
FirstPart(parts, from, Test(_)) ==
    IF \A i \in (from + 1)..Len(parts) : ~Test(parts[i]) THEN <<>>
    ELSE parts[CHOOSE i \in (from + 1)..Len(parts) :
                   Test(parts[i]) /\ \A j \in (from + 1)..(i - 1) : ~Test(parts[j])]

\* analyze.go:323-325
NamesUnit(p) ==
    \/ Contains(ToUpper(p), S_KB) \/ Contains(ToUpper(p), S_MB) \/ Contains(ToUpper(p), <<"B">>)

\* analyze.go:352-354
NamesSize(p) ==
    \/ Contains(ToUpper(p), S_KB) \/ Contains(ToUpper(p), S_MB)
    \/ (Contains(ToUpper(p), <<"B">>) /\ Len(p) > 1)

\* analyze.go:317-330: the size column, or the first unit-like part from
\* column 8 on
SizeColumn(parts) ==
    IF Len(parts) > 12 THEN parts[13]
    ELSE IF Len(parts) > 8 THEN FirstPart(parts, 8, NamesUnit)
    ELSE <<>>

\* analyze.go:348-359
SizeOfRow(parts, sizeStr) == IF sizeStr = <<>> THEN FirstPart(parts, 0, NamesSize) ELSE sizeStr

\* analyze.go:338-395: the record of a row
RowRecord(parts, page, sizeStr) ==
    [page |-> page,
     img |-> Image(Part(parts, 1), Part(parts, 2), Atoi(Part(parts, 6)).val,
                   Atoi(Part(parts, 7)).val, Part(parts, 8), sizeStr,
                   Part(parts, 4) = <<"*">>)]

\* analyze.go:264-395: what a row adds to allImages
RowRecords(parts) ==
    IF Len(parts) < 3 THEN <<>>
    ELSE IF Part(parts, 0) = <<>> \/ Part(parts, 2) = <<>> THEN <<>>
    ELSE IF Atoi(Part(parts, 0)).val = 0 THEN <<>>
    ELSE <<RowRecord(parts, Atoi(Part(parts, 0)).val, SizeOfRow(parts, SizeColumn(parts)))>>

\* analyze.go:198-396: the loop over the lines, from line i on
RECURSIVE ParseLines(_, _, _)
ParseLines(lines, i, inTable) ==
    IF i > Len(lines) THEN <<>>
    ELSE IF ~inTable /\ IsHeaderLine(TrimSpace(lines[i])) THEN ParseLines(lines, i + 1, TRUE)
    ELSE IF ~inTable \/ TrimSpace(lines[i]) = <<>> THEN ParseLines(lines, i + 1, inTable)
    ELSE IF IsSummaryLine(ToLower(TrimSpace(lines[i]))) THEN <<>>
    ELSE IF IsSeparatorLine(TrimSpace(lines[i])) THEN ParseLines(lines, i + 1, inTable)
    ELSE RowRecords(NonEmptyParts(SplitRow(lines[i]))) \o ParseLines(lines, i + 1, inTable)

\* analyze.go:191-396: allImages of a listing text
ParseListing(text) == ParseLines(Split(text, NL), 1, FALSE)

\* strings.Fields: the maximal runs of non-whitespace characters
RECURSIVE Fields(_)
Fields(s) ==
    IF Len(s) = 0 THEN <<>>
    ELSE IF s[1] \in Whitespace THEN Fields(Tail(s))
    ELSE IF \A i \in 1..Len(s) : s[i] \notin Whitespace THEN <<s>>
    ELSE LET e == CHOOSE k \in 1..Len(s) :
                      s[k] \in Whitespace /\ \A j \in 1..(k - 1) : s[j] \notin Whitespace
         IN <<SubSeq(s, 1, e - 1)>> \o Fields(SubSeq(s, e, Len(s)))

\* remove_elements.go:158-185: the occurrence of a row
OccurrenceOfParts(parts) ==
    IF Len(parts) < 3 THEN <<>>
    ELSE IF ~Atoi(parts[1]).ok \/ Atoi(parts[1]).val = 0 \/ parts[3] = <<>> THEN <<>>
    ELSE <<Occurrence(Atoi(parts[1]).val, parts[2], parts[3])>>

\* remove_elements.go:142-186: the loop over the lines, from line i on
RECURSIVE OccurrenceLines(_, _, _)
OccurrenceLines(lines, i, inTable) ==
    IF i > Len(lines) THEN <<>>
    ELSE IF TrimSpace(lines[i]) = <<>> THEN OccurrenceLines(lines, i + 1, inTable)
    ELSE IF ~inTable /\ (Contains(TrimSpace(lines[i]), S_Page) \/ Contains(TrimSpace(lines[i]), S_ID))
         THEN OccurrenceLines(lines, i + 1, TRUE)
    ELSE IF ~inTable THEN OccurrenceLines(lines, i + 1, inTable)
    ELSE OccurrenceOfParts(Fields(TrimSpace(lines[i]))) \o OccurrenceLines(lines, i + 1, inTable)

\* remove_elements.go:139-186: allImageOccurrences of a listing text
OccurrencesOfListing(text) == OccurrenceLines(Split(text, NL), 1, FALSE)

\* strings.Join
RECURSIVE Join(_, _)
Join(elems, sep) ==
    IF Len(elems) = 0 THEN <<>>
    ELSE IF Len(elems) = 1 THEN elems[1]
    ELSE elems[1] \o sep \o Join(Tail(elems), sep)

\* the rows of the listing texts: their columns and their text, in the
\* four separator styles (the box-drawing table with its outer border)
Row(fields, text) == [fields |-> fields, text |-> text]

Columns3 == <<<<"1">>, <<"5">>, <<"I", "m", "0">>>>
Columns4 == <<<<"2">>, <<"6">>, <<"I", "m", "1">>, <<"i", "m", "a", "g", "e">>>>
Columns13 == <<<<"2">>, <<"7">>, <<"I", "m", "2">>, <<"i", "m", "a", "g", "e">>, <<"*">>, <<"*">>, <<"6", "0", "0">>, <<"8", "0", "0">>, <<"R", "G", "B">>, <<"3">>, <<"8">>, <<"*">>, <<"4", "0", "K", "B">>>>

ListingRows ==
    { Row(Columns3, <<Box, " ">> \o Join(Columns3, <<" ", Box, " ">>) \o <<" ", Box>>),
      Row(Columns3, Join(Columns3, <<" ", "|", " ">>)),
      Row(Columns4, Join(Columns4, <<Tab>>)),
      Row(Columns4, <<" ", " ">> \o Join(Columns4, <<" ", " ", " ">>)),
      Row(Columns13, Join(Columns13, <<Tab>>)) }

HeaderLine == Join(<<S_Page, S_Obj, S_Id>>, <<" ", " ">>)
SeparatorLine == <<"-", "-", "-", "-", "-">>
SummaryLine == <<"2", " ", "i", "m", "a", "g", "e", "s", " ", "a", "v", "a", "i", "l", "a", "b", "l", "e">>
\* a tab-separated row with a pipe character in its id
MixedRow == Join(<<<<"1">>, <<"5">>, <<"I", "m", "|", "0">>>>, <<Tab>>)
Garbage == <<"n", "/", "a">>

ListingLines ==
    {r.text : r \in ListingRows} \cup {HeaderLine, SeparatorLine, SummaryLine, MixedRow, Garbage, <<>>}

\* the listing texts: up to MaxLines lines
Reports == {Join(ls, <<NL>>) : ls \in UNION {[1..n -> ListingLines] : n \in 0..MaxLines}}

(***************************************************************************)
(* removeImagesByIDs on a listing text: the analysis and the occurrence    *)
(* table both read the text of `pdfcpu images list`; the selection is      *)
(* every candidate the analysis can show and one unknown ID.               *)
(***************************************************************************)
InitListing ==
    /\ pc = "ls_analyze"
    /\ files = {InFile}
    /\ calls = <<>>
    /\ result = "none"
    /\ totalPages = MaxPages
    /\ listing = <<>>
    /\ report \in Reports
    /\ allImages = <<>> /\ signatures = <<>>
    /\ pages = <<>>
    /\ pageNumbers = [err |-> "", list |-> <<>>]
    /\ elementType = "image"
    /\ elementIDs = PossibleIDs(ParseListing(report), totalPages) \cup {BogusID}
    /\ Idle

\* remove_elements.go:98-101: AnalyzeUnwantedElements (analyze.go:68-130),
\* pdfcpu info, pdfcpu images list, the parser and the two passes
LS_Analyze ==
    /\ pc = "ls_analyze"
    /\ \/ /\ calls' = Append(calls, Call("info", InFile, NoFile, <<>>, "failed", {}))
          /\ pc' = "done" /\ result' = E_Analyze
          /\ UNCHANGED <<allImages, candidates>>
       \/ /\ calls' = calls \o <<Call("info", InFile, NoFile, <<>>, "ok", {}),
                                 Call("images list", InFile, NoFile, <<>>, "failed", {})>>
          /\ pc' = "done" /\ result' = E_Analyze
          /\ UNCHANGED <<allImages, candidates>>
       \/ /\ calls' = calls \o <<Call("info", InFile, NoFile, <<>>, "ok", {}),
                                 Call("images list", InFile, NoFile, <<>>, "ok", {})>>
          /\ pc' = "ls_resolve" /\ result' = result
          /\ allImages' = ParseListing(report)
          /\ candidates' \in CandidateListsOf(AnalysedRows(allImages'), totalPages)
    /\ UNCHANGED <<files, totalPages, listing, report, signatures, pageVars, reqVars,
                   allImageOccurrences, resolved, imagesToRemove, currentFile, tempFiles>>

\* remove_elements.go:119-363: pdfcpu images list, the occurrence table read
\* from its text, the resolution of the selected candidates, the removal list
LS_ListAndResolve ==
    /\ pc = "ls_resolve"
    /\ \/ /\ calls' = Append(calls, Call("images list", InFile, NoFile, <<>>, "failed", {}))
          /\ pc' = "done" /\ result' = E_List
          /\ UNCHANGED <<allImageOccurrences, resolved, imagesToRemove>>
       \/ /\ calls' = Append(calls, Call("images list", InFile, NoFile, <<>>, "ok", {}))
          /\ allImageOccurrences' = OccurrencesOfListing(report)
          /\ resolved' = ResolveAll(candidates, SelectedIDs(elementIDs), allImageOccurrences')
          /\ imagesToRemove' = RemovalList(resolved')
          /\ IF NoMatchingImages(imagesToRemove')
             THEN pc' = "done" /\ result' = E_NoMatch
             ELSE pc' = "ri_blank" /\ result' = result
    /\ UNCHANGED <<files, docVars, pageVars, reqVars, candidates, currentFile, tempFiles>>

NextListing == LS_Analyze \/ LS_ListAndResolve \/ RI_CreateBlank \/ RI_Update

SpecListing == InitListing /\ [][NextListing]_vars

(***************************************************************************)
(* pdf/analyze.go: AnalyzeUnwantedElements(filename), on documents of up   *)
(* to MaxDocPages pages whose listing has up to MaxDocRows rows.           *)
(***************************************************************************)
MaxDocPages == 5    \* largest page count of an analysed document
MaxDocRows == 5     \* most rows of the listing of an analysed document

\* the images of the analysed documents: those of ImagePool and one more of
\* the prefix and size of "Image-1" with other dimensions
AnalysisPool ==
    ImagePool \o
    << Image(<<"1", "0">>, <<"I", "m", "a", "g", "e", "-", "4">>, 300, 400, S_RGB, S_40KB, FALSE) >>

\* the images that occur together in one analysed document
Casts == {{1, 2}, {1, 6}, {3, 4}, {4, 5}}

\* the rows of the slots S (page, image), in page and object order
RowsOf(S) ==
    [i \in 1..Cardinality(S) |->
        LET p == CHOOSE q \in S :
                    Cardinality({r \in S : r[1] * 10 + r[2] < q[1] * 10 + q[2]}) = i - 1
        IN [page |-> p[1], img |-> AnalysisPool[p[2]]]]

Documents(T) ==
    {RowsOf(S) : S \in UNION {{X \in SUBSET ((1..T) \X cast) : Cardinality(X) <= MaxDocRows} :
                                 cast \in Casts}}

E_PageCount == "failed to get page count"
E_AnalyzeImages == "failed to analyze images"

InitAnalysis ==
    /\ pc = "an_pages"
    /\ files = {InFile}
    /\ calls = <<>>
    /\ result = "none"
    /\ totalPages \in 1..MaxDocPages
    /\ listing \in Documents(totalPages)
    /\ report = <<>> /\ allImages = <<>> /\ signatures = <<>>
    /\ pages = <<>>
    /\ pageNumbers = [err |-> "", list |-> <<>>]
    /\ elementType = "image"
    /\ elementIDs = {}
    /\ Idle

\* analyze.go:83-87: getPageCount (pdfcpu info)
AN_GetPageCount ==
    /\ pc = "an_pages"
    /\ \/ /\ calls' = Append(calls, Call("info", InFile, NoFile, <<>>, "ok", {}))
          /\ pc' = "an_images" /\ result' = result
       \/ /\ \E st \in {"failed", "timeout"} :
                calls' = Append(calls, Call("info", InFile, NoFile, <<>>, st, {}))
          /\ pc' = "done" /\ result' = E_PageCount
    /\ UNCHANGED <<files, docVars, pageVars, reqVars, imgVars>>

\* analyze.go:89-129: analyzeImages (pdfcpu images list, the two passes);
\* analyzeContent finds nothing and cannot fail
AN_AnalyzeImages ==
    /\ pc = "an_images"
    /\ \/ /\ calls' = Append(calls, Call("images list", InFile, NoFile, <<>>, "ok", {}))
          /\ candidates' \in ImageCandidateLists(listing, totalPages)
          /\ pc' = "done" /\ result' = ""
       \/ /\ \E st \in {"failed", "timeout"} :
                calls' = Append(calls, Call("images list", InFile, NoFile, <<>>, st, {}))
          /\ candidates' = candidates
          /\ pc' = "done" /\ result' = E_AnalyzeImages
    /\ UNCHANGED <<files, docVars, pageVars, reqVars, allImageOccurrences, resolved,
                   imagesToRemove, currentFile, tempFiles>>

NextAnalysis == AN_GetPageCount \/ AN_AnalyzeImages

SpecAnalysis == InitAnalysis /\ [][NextAnalysis]_vars

(***************************************************************************)
(* analyze.go:437-453: the signatures the grouping loop of analyzeImages   *)
(* computes, for two image records drawn from field values that contain    *)
(* the characters the signature is built with.                             *)
(***************************************************************************)
SignedWidths == {6, 66}
SignedHeights == {6, 66}
SignedColorSpaces == {<<"G">>, <<"G", "_", "6">>}
SignedSizes == {<<"6", "K", "B">>, <<"6", "_", "6", "K", "B">>}
SignedIds == {<<"I", "m", "a", "g", "e", "-", "1">>, <<"I", "m", "a", "g", "e", "-", "2">>, <<"W", "M", "-", "1">>}

SignedImages ==
    {Image(<<"5">>, id, w, h, cs, sz, FALSE) :
        id \in SignedIds, w \in SignedWidths, h \in SignedHeights,
        cs \in SignedColorSpaces, sz \in SignedSizes}

InitSignature ==
    /\ pc = "sg_group"
    /\ files = {InFile}
    /\ calls = <<>>
    /\ result = "none"
    /\ totalPages = 2
    /\ listing \in {<<[page |-> 1, img |-> a], [page |-> 2, img |-> b]>> : a, b \in SignedImages}
    /\ report = <<>> /\ allImages = <<>> /\ signatures = <<>>
    /\ pages = <<>>
    /\ pageNumbers = [err |-> "", list |-> <<>>]
    /\ elementType = "image"
    /\ elementIDs = {}
    /\ Idle

\* analyze.go:437-453: prefix and signature of every image
SG_Group ==
    /\ pc = "sg_group"
    /\ signatures' = [i \in 1..Len(listing) |-> AnalysedImage(listing[i]).signature]
    /\ pc' = "done"
    /\ UNCHANGED <<files, calls, result, totalPages, listing, report, allImages, pageVars,
                   reqVars, imgVars>>

NextSignature == SG_Group

SpecSignature == InitSignature /\ [][NextSignature]_vars

(***************************************************************************)
(* Properties of the analysis.                                             *)
(***************************************************************************)
\* the analysis has returned its candidates
Analysed == pc = "done" /\ result = ""

\* the candidate sets the analysis can return for the document, one for
\* each iteration order of its maps
PossibleResults == {Range(l) : l \in ImageCandidateLists(listing, totalPages)}

\* C11: for a fixed listing every run of the analysis returns the same set
\* of candidates, with the same IDs, confidences and metadata (signature,
\* object, image_id), whatever order the maps are iterated in.
C11_AnalysisIsDeterministic ==
    Analysed => PossibleResults = {Range(candidates)}

\* the prefix+size group of an image: the images of at least
\* MinWatermarkFileSizeKB with its prefix and rounded size
SizeGroupOf(r, images) ==
    {q \in Range(images) : q.large /\ q.prefix = r.prefix /\ q.sizeKey = r.sizeKey}

DistinctPages(group) == {q.page : q \in group}

FullPageID(r) == S_fullpage \o <<"_">> \o r.prefix \o <<"_">> \o r.sizeKey

\* the candidates of a list, by position, that have the ID
WithID(cands, id) == {i \in 1..Len(cands) : cands[i].ID = id}

IsFullPageCandidate(c, T) ==
    /\ c.confidence.n * 100 = 95 * c.confidence.d
    /\ c.type = S_fullpage
    /\ c.page_count = T

FullPageGroupHandled(r, images, cands, T) ==
    /\ Cardinality(WithID(cands, FullPageID(r))) = 1
    /\ \A i \in WithID(cands, FullPageID(r)) : IsFullPageCandidate(cands[i], T)
    /\ \A j \in 1..Len(cands) :
          cands[j].ID # FullPageID(r) => GroupOf(cands[j], images) \cap SizeGroupOf(r, images) = {}

FullPageGroupsHandled(images, cands, T) ==
    \A r \in Range(images) :
        (r.large /\ r.prefix # S_unknown /\ DistinctPages(SizeGroupOf(r, images)) = 1..T) =>
            FullPageGroupHandled(r, images, cands, T)

\* C14: when a prefix+size group (known prefix, at least 30KB) has an image
\* on every page of the document, the analysis returns exactly one candidate
\* "fullpage_watermark_<prefix>_<sizeKey>" for it, with confidence 0.95, type
\* "fullpage_watermark" and page_count = T, and no second candidate covers
\* images of that group.
C14_FullPageGroupGetsOneCandidate ==
    Analysed => FullPageGroupsHandled(AnalysedImages(listing), candidates, totalPages)

\* the pages hold a run of at least `length` consecutive pages
HasRun(pageSet, length) == \E a \in pageSet : \A k \in 0..(length - 1) : a + k \in pageSet

\* the group is on fewer than 80% of the pages, without a contiguous run of
\* the threshold length
RarelyOccurring(group, T) ==
    /\ 5 * Cardinality(DistinctPages(group)) < 4 * T
    /\ ~HasRun(DistinctPages(group), MinPagesFor(T))

NoRareGroupReported(images, cands, T) ==
    \A c \in Range(cands) : ~RarelyOccurring(GroupOf(c, images), T)

\* C15: a group of images (of one signature, or of one prefix and size) whose
\* distinct pages are fewer than 80% of the document's pages and hold no
\* contiguous run of the threshold length produces no candidate.
C15_RareGroupsNotReported ==
    Analysed => NoRareGroupReported(AnalysedImages(listing), candidates, totalPages)

\* the images of one signature
SignatureGroupOf(r, images) == {q \in Range(images) : q.signature = r.signature}

\* the candidates that stand for a group
CandidatesFor(group, images, cands) == {c \in Range(cands) : group \subseteq GroupOf(c, images)}

BetweenThresholdAndFull(confidence) ==
    /\ confidence.n * 100 > 80 * confidence.d
    /\ confidence.n * 100 < 95 * confidence.d

\* exactly 80% of the pages, not one contiguous run
AtThresholdScattered(pageSet, T) ==
    /\ 5 * Cardinality(pageSet) = 4 * T
    /\ ~HasRun(pageSet, Cardinality(pageSet))

ThresholdGroupsScored(images, cands, T) ==
    \A r \in Range(images) :
        AtThresholdScattered(DistinctPages(SignatureGroupOf(r, images)), T) =>
            /\ CandidatesFor(SignatureGroupOf(r, images), images, cands) # {}
            /\ \A c \in CandidatesFor(SignatureGroupOf(r, images), images, cands) :
                  BetweenThresholdAndFull(c.confidence)

\* C16: a group of identical images on exactly 80% of the pages, not
\* contiguous, gets a candidate whose confidence is strictly between 0.80
\* and 0.95, from either pass and whatever the image's dimensions and soft
\* mask are.
C16_ThresholdConfidenceInRange ==
    Analysed => ThresholdGroupsScored(AnalysedImages(listing), candidates, totalPages)

RepresentsOwnGroup(c, images) ==
    \E r \in GroupOf(c, images) : r.img.obj = c.object /\ r.img.id = c.image_id

\* C17: the metadata object and image_id of every candidate are those of one
\* parsed occurrence of the candidate's own group, hence never empty.
C17_MetadataNamesGroupMember ==
    Analysed =>
        \A c \in Range(candidates) :
            /\ RepresentsOwnGroup(c, AnalysedImages(listing))
            /\ c.object # <<>> /\ c.image_id # <<>>

\* C18: no two candidates of one analysis result have the same ID.
C18_CandidateIDsUnique ==
    Analysed =>
        \A i, j \in 1..Len(candidates) : candidates[i].ID = candidates[j].ID => i = j

(***************************************************************************)
(* Properties of the parsers of the listing text.                          *)
(***************************************************************************)
ReportLines == Split(report, <<NL>>[1])

\* analyzeImages has read the listing text
ListingParsed == Len(calls) >= 2 /\ calls[2].cmd = "images list" /\ calls[2].status = "ok"

\* the row whose text a line is
RowOfLine(line) == CHOOSE r \in ListingRows : r.text = line

IsListingRow(line) == \E r \in ListingRows : r.text = line

\* a header line followed by rows only
WellFormedListing ==
    /\ Len(ReportLines) >= 1
    /\ ReportLines[1] = HeaderLine
    /\ \A i \in 2..Len(ReportLines) : IsListingRow(ReportLines[i])

\* the record carries the page, object and id columns of the row
CarriesColumns(rec, fields) ==
    /\ rec.page = Atoi(fields[1]).val /\ rec.page >= 1
    /\ rec.img.obj = fields[2]
    /\ rec.img.id = fields[3]

\* C12: a header line followed by N valid rows yields exactly N image
\* records, in row order, each with the page, object and id of its row; an
\* empty report, or one without a header or without a valid row, yields no
\* record; and analyzeImages returns no error once the listing was obtained.
C12_ParserYieldsOneRecordPerRow ==
    ListingParsed =>
        /\ WellFormedListing =>
              /\ Len(allImages) = Len(ReportLines) - 1
              /\ \A i \in 1..Len(allImages) :
                    CarriesColumns(allImages[i], RowOfLine(ReportLines[i + 1]).fields)
        /\ (\/ report = <<>>
            \/ \A i \in 1..Len(ReportLines) : ~IsHeaderLine(TrimSpace(ReportLines[i]))
            \/ \A i \in 1..Len(ReportLines) : ~IsListingRow(ReportLines[i])) =>
              allImages = <<>>
        /\ result # E_Analyze

\* a header followed by a bordered box-drawing row and a tab-separated row
\* has been parsed into two records
C12_Witness ==
    /\ ListingParsed
    /\ WellFormedListing
    /\ Len(ReportLines) = 3
    /\ Contains(ReportLines[2], <<Box>>) /\ Contains(ReportLines[3], <<Tab>>)
    /\ Len(allImages) = 2
    /\ allImages[1].img.id = Columns3[3] /\ allImages[2].img.id = Columns4[3]

\* the triples of a parser's records
TriplesOf(records) == {Occurrence(r.page, r.img.obj, r.img.id) : r \in Range(records)}

\* C19: the occurrence table of removeImagesByIDs holds exactly the (page,
\* object, id) triples the analysis parser yields for the same listing text,
\* in every table layout, with separator lines and a trailing summary line.
C19_OccurrenceTableMatchesAnalysis ==
    ResolutionRan => Range(allImageOccurrences) = TriplesOf(allImages)

\* the non-empty parts of a line in the separator style k (1 box-drawing,
\* 2 pipe, 3 tab, 4 runs of blanks)
PartsInStyle(line, k) ==
    NonEmptyParts(CASE k = 1 -> Split(line, Box)
                    [] k = 2 -> Split(line, "|")
                    [] k = 3 -> Split(line, Tab)
                    [] OTHER -> SplitOnBlanks(line))

\* the parts in the first style that yields at least 3 of them
FirstYieldingParts(line) ==
    IF \A k \in 1..4 : Len(PartsInStyle(line, k)) < 3 THEN <<>>
    ELSE PartsInStyle(line, CHOOSE k \in 1..4 :
                                /\ Len(PartsInStyle(line, k)) >= 3
                                /\ \A j \in 1..(k - 1) : Len(PartsInStyle(line, j)) < 3)

\* the lines the parser takes for rows: after the header, before the first
\* summary line, neither blank nor a separator line
IsRowLine(lines, i) ==
    /\ \E h \in 1..(i - 1) : IsHeaderLine(TrimSpace(lines[h]))
    /\ \A j \in 1..i :
          (\E h \in 1..(j - 1) : IsHeaderLine(TrimSpace(lines[h]))) =>
              ~IsSummaryLine(ToLower(TrimSpace(lines[j])))
    /\ TrimSpace(lines[i]) # <<>>
    /\ ~IsSeparatorLine(TrimSpace(lines[i]))

RECURSIVE RecordsByFirstYieldingStyle(_, _)
RecordsByFirstYieldingStyle(lines, i) ==
    IF i > Len(lines) THEN <<>>
    ELSE (IF IsRowLine(lines, i) THEN RowRecords(FirstYieldingParts(lines[i])) ELSE <<>>)
         \o RecordsByFirstYieldingStyle(lines, i + 1)

\* C20: each row is split in the first of the styles box-drawing, pipe, tab,
\* blanks that yields at least 3 non-empty fields for it, so that a row with
\* a higher-priority separator character yielding fewer than 3 fields is
\* still parsed in a lower-priority style, and rows of different styles in
\* one report are all parsed.
C20_FirstYieldingStyleWins ==
    ListingParsed => allImages = RecordsByFirstYieldingStyle(ReportLines, 1)

(***************************************************************************)
(* Properties of the signature.                                            *)
(***************************************************************************)
\* the five fields of a record that make its signature
SignedFields(img) == <<img.width, img.height, img.colorSpace, img.size, extractIdPrefix(img.id)>>

\* the number of those fields in which two records differ
Differences(a, b) == Cardinality({k \in 1..5 : SignedFields(a)[k] # SignedFields(b)[k]})

\* C13: two image records with the same width, height, colorSpace, size
\* string and prefix get the same signature, and two records that differ in
\* exactly one of the five get different signatures.
C13_SignatureSeparatesFields ==
    pc = "done" =>
        \A i, j \in 1..Len(listing) :
            /\ Differences(listing[i].img, listing[j].img) = 0 => signatures[i] = signatures[j]
            /\ Differences(listing[i].img, listing[j].img) = 1 => signatures[i] # signatures[j]

\* two records that differ in their prefix alone have been given different
\* signatures
C13_Witness ==
    /\ pc = "done"
    /\ Differences(listing[1].img, listing[2].img) = 1
    /\ extractIdPrefix(listing[1].img.id) # extractIdPrefix(listing[2].img.id)
    /\ signatures[1] # signatures[2]

(***************************************************************************)
(* analyzeImages on listing texts whose rows have a page or id column that *)
(* is absent or is not a page number: a header line followed by up to      *)
(* MaxLines tab-separated or bordered rows.                                *)
(***************************************************************************)
S_Im0 == <<"I", "m", "0">>

\* the columns page, object and id of a row
Columns(page, obj, id) == <<page, obj, id>>

\* a row of a bordered pipe table with a type column; an absent column is an
\* empty cell
BorderedRow(fields) ==
    <<"|", " ">> \o Join(fields \o <<<<"i", "m", "a", "g", "e">>>>, <<" ", "|", " ">>) \o <<" ", "|">>

PageRows ==
    { Row(Columns(<<"1">>, <<"5">>, S_Im0), Join(Columns(<<"1">>, <<"5">>, S_Im0), <<Tab>>)),
      Row(Columns(<<"0">>, <<"5">>, S_Im0), Join(Columns(<<"0">>, <<"5">>, S_Im0), <<Tab>>)),
      Row(Columns(<<"-", "1">>, <<"5">>, S_Im0), Join(Columns(<<"-", "1">>, <<"5">>, S_Im0), <<Tab>>)),
      Row(Columns(<<"x">>, <<"5">>, S_Im0), Join(Columns(<<"x">>, <<"5">>, S_Im0), <<Tab>>)),
      Row(Columns(<<"2">>, <<"6">>, <<>>), Join(Columns(<<"2">>, <<"6">>, <<>>), <<Tab>>)),
      Row(Columns(<<>>, <<"5">>, S_Im0), Join(Columns(<<>>, <<"5">>, S_Im0), <<Tab>>)),
      Row(Columns(<<>>, <<"6">>, S_Im0), BorderedRow(Columns(<<>>, <<"6">>, S_Im0))) }

\* the listing texts: the header line and up to MaxLines rows
PageReports ==
    {Join(<<HeaderLine>> \o ls, <<NL>>) :
        ls \in UNION {[1..n -> {r.text : r \in PageRows}] : n \in 0..MaxLines}}

InitRows ==
    /\ pc = "ls_analyze"
    /\ files = {InFile}
    /\ calls = <<>>
    /\ result = "none"
    /\ totalPages = MaxPages
    /\ listing = <<>>
    /\ report \in PageReports
    /\ allImages = <<>> /\ signatures = <<>>
    /\ pages = <<>>
    /\ pageNumbers = [err |-> "", list |-> <<>>]
    /\ elementType = "image"
    /\ elementIDs = PossibleIDs(ParseListing(report), totalPages) \cup {BogusID}
    /\ Idle

SpecRows == InitRows /\ [][NextListing]_vars

(***************************************************************************)
(* Properties of the rows the parser accepts.                              *)
(***************************************************************************)
\* the row of PageRows whose text a line is
PageRowOfLine(line) == CHOOSE r \in PageRows : r.text = line

\* the row has a positive decimal page number and an id
HasPageAndId(fields) ==
    /\ IsNumber(fields[1]) /\ DecimalValue(fields[1]) >= 1
    /\ fields[3] # <<>>

\* the columns of the rows after the header that have a page and an id
RECURSIVE RowsWithPageAndId(_, _)
RowsWithPageAndId(lines, i) ==
    IF i > Len(lines) THEN <<>>
    ELSE (IF HasPageAndId(PageRowOfLine(lines[i]).fields)
          THEN <<PageRowOfLine(lines[i]).fields>> ELSE <<>>)
         \o RowsWithPageAndId(lines, i + 1)

\* C21: every record the parser produces has a page >= 1 and a non-empty
\* id; a row whose page column is absent, not a number, zero or negative, or
\* whose id column is absent gives no record, and the rows after it are
\* still parsed: the records are those of the other rows, in row order.
C21_RecordsHavePageAndId ==
    ListingParsed =>
        /\ \A i \in 1..Len(allImages) : allImages[i].page >= 1 /\ allImages[i].img.id # <<>>
        /\ Len(allImages) = Len(RowsWithPageAndId(ReportLines, 2))
        /\ \A i \in 1..Len(allImages) :
              CarriesColumns(allImages[i], RowsWithPageAndId(ReportLines, 2)[i])

(***************************************************************************)
(* analyze.go:437-453 on one image record of any id: the ids are the texts *)
(* of up to MaxIdLen characters over a letter and the two delimiters, and  *)
(* ids with the literals extractIdPrefix knows.                            *)
(***************************************************************************)
MaxIdLen == 6       \* longest id made of the characters of IdChars

IdChars == {"a", "-", "_"}

LiteralIds ==
    { <<"I", "m", "a", "g", "e", "-", "7">>, <<"I", "m", "a", "g", "e", "_", "7">>,
      <<"I", "m", "g", "7">>, <<"W", "M", "-", "3">>, <<"W", "M", "_", "3">>,
      <<"W", "a", "t", "e", "r", "m", "a", "r", "k", "2">>, <<"X", "7">>, <<"l", "o", "g", "o", "7">> }

Ids == UNION {[1..n -> IdChars] : n \in 0..MaxIdLen} \cup LiteralIds

InitPrefix ==
    /\ pc = "sg_group"
    /\ files = {InFile}
    /\ calls = <<>>
    /\ result = "none"
    /\ totalPages = 1
    /\ listing \in {<<[page |-> 1, img |-> Image(<<"5">>, id, 50, 50, S_RGB, S_12KB, FALSE)]>> : id \in Ids}
    /\ report = <<>> /\ allImages = <<>> /\ signatures = <<>>
    /\ pages = <<>>
    /\ pageNumbers = [err |-> "", list |-> <<>>]
    /\ elementType = "image"
    /\ elementIDs = {}
    /\ Idle

SpecPrefix == InitPrefix /\ [][NextSignature]_vars

(***************************************************************************)
(* Properties of the id prefix.                                            *)
(***************************************************************************)
\* the text before the first "-" or "_" of an id, empty when the id has no
\* delimiter or starts with one
BeforeDelimiter(id) ==
    IF IndexAny(id, {"-", "_"}) > 1 THEN SubSeq(id, 1, IndexAny(id, {"-", "_"}) - 1) ELSE <<>>

\* the prefix of an id by the rules in their order: known literal, text
\* before the first delimiter, leading 3 or 5 characters, "unknown"
PrefixByRule(id) ==
    IF HasPrefix(id, S_ImageDash) THEN S_Image
    ELSE IF HasPrefix(id, S_Img) THEN S_Img
    ELSE IF HasPrefix(id, S_WMDash) \/ HasPrefix(id, S_Watermark) THEN S_Watermark
    ELSE IF BeforeDelimiter(id) # <<>> THEN BeforeDelimiter(id)
    ELSE IF Len(id) >= 3 /\ Len(id) <= 5 THEN SubSeq(id, 1, 3)
    ELSE IF Len(id) > 5 THEN SubSeq(id, 1, 5)
    ELSE S_unknown

\* the prefix the grouping loop has put into the signature of record i
PrefixOfRecord(i) ==
    PrefixInSignature(signatures[i], LastIndex(signatures[i], S_prefixTag))

\* C22: the prefix of an id is the known literal when the id starts with
\* one, otherwise the non-empty text before the first "-" or "_", otherwise
\* the first 3 characters of an id of length 3 to 5 and the first 5 of a
\* longer one, otherwise "unknown"; it is never empty.
C22_PrefixFollowsRules ==
    pc = "done" =>
        \A i \in 1..Len(listing) :
            /\ signatures[i] = SignatureOf(listing[i].img.width, listing[i].img.height,
                                           listing[i].img.colorSpace, listing[i].img.size,
                                           PrefixByRule(listing[i].img.id))
            /\ PrefixOfRecord(i) # <<>>

(***************************************************************************)
(* Properties of the two passes.                                           *)
(***************************************************************************)
\* the candidates of a list, by position, that Pass A names after the
\* prefix+size group of the image
WatermarkCandidatesOf(r, cands) ==
    {i \in 1..Len(cands) :
        \E ctype \in {S_fullpage, S_repeating} :
            cands[i].ID = ctype \o <<"_">> \o r.prefix \o <<"_">> \o r.sizeKey}

\* confidence = 0.80 + 0.15 * coverageCount / T
IsScaledConfidence(confidence, coverageCount, T) ==
    confidence.n * 100 * T = (80 * T + 15 * coverageCount) * confidence.d

SubGroupReported(r, cands, coverageCount, T) ==
    IF 5 * coverageCount >= 4 * T
    THEN /\ Cardinality(WatermarkCandidatesOf(r, cands)) = 1
         /\ coverageCount < T =>
               \A i \in WatermarkCandidatesOf(r, cands) :
                   /\ cands[i].type = S_repeating
                   /\ IsScaledConfidence(cands[i].confidence, coverageCount, T)
    ELSE WatermarkCandidatesOf(r, cands) = {}

SubGroupsReported(images, cands, T) ==
    \A r \in Range(images) :
        (r.large /\ r.prefix # S_unknown) =>
            SubGroupReported(r, cands, Cardinality(DistinctPages(SizeGroupOf(r, images))), T)

\* C23: Pass A emits exactly one candidate for every prefix+size sub-group
\* (known prefix, at least 30KB) on at least 80% of the pages and none for a
\* sub-group below that; a sub-group on 80% to 99% of the pages gets a
\* "repeating_watermark" candidate with confidence 0.80 + 0.15 * coverage,
\* also when it holds fewer images than the document has pages.
C23_PassAReportsCoveringSubGroups ==
    Analysed => SubGroupsReported(AnalysedImages(listing), candidates, totalPages)

SameFraction(a, b) == a.n * b.d = b.n * a.d

\* the confidence is the one computed from the dimensions and the soft mask
\* of an image that has the candidate's signature
ScoredFromOwnImage(c, images, T) ==
    \E r \in Range(images) :
        /\ r.signature = c.signature
        /\ SameFraction(c.confidence,
                        calculateRepeatingUnwantedElementConfidence(r.img, c.page_count, T))

\* C24: the confidence of a Pass B candidate is min(1.0, 0.4 + 0.6 *
\* pageCount/totalPages + 0.15 for width > 300 or height > 400 + 0.15 for
\* width > 500 or height > 700 + 0.05 for a soft mask), from the dimensions
\* and soft mask of an image that has the candidate's signature; it lies in
\* [0, 1].
C24_ElementConfidenceFromOwnImage ==
    Analysed =>
        \A c \in Range(candidates) :
            c.type = S_repeatingElement =>
                /\ ScoredFromOwnImage(c, AnalysedImages(listing), totalPages)
                /\ 0 <= c.confidence.n /\ c.confidence.n <= c.confidence.d

(***************************************************************************)
(* Properties of the resolution of the selected candidates.                *)
(***************************************************************************)
\* occurrences whose id starts with the stored prefix, with or without a
\* delimiter after it, or whose prefix as the analysis derives it is the
\* stored prefix
DerivedPrefixMatches(c, occs) ==
    SelectSeq(occs, LAMBDA o :
        /\ c.prefix # <<>>
        /\ \/ HasPrefix(o.id, c.prefix)
           \/ HasPrefix(o.id, c.prefix \o <<"-">>)
           \/ HasPrefix(o.id, c.prefix \o <<"_">>)
           \/ extractIdPrefix(o.id) = c.prefix)

\* C25: when the exact id matches nothing, the prefix strategy selects
\* exactly the occurrences whose id starts with the candidate's stored prefix
\* or whose own prefix, derived as the analysis derives it, equals the stored
\* prefix; such an occurrence is always selected.
C25_PrefixStrategyUsesDerivedPrefix ==
    \A i \in 1..Len(resolved) :
        (/\ ExactMatches(resolved[i].cand, allImageOccurrences) = <<>>
         /\ DerivedPrefixMatches(resolved[i].cand, allImageOccurrences) # <<>>) =>
            resolved[i].found = DerivedPrefixMatches(resolved[i].cand, allImageOccurrences)

(***************************************************************************)
(* api/handlers.go: the server with MaxRequests requests in flight, each   *)
(* one of HandleRemoveSelectedElements, HandleAnalyzeUnwantedElements and  *)
(* HandlePreviewImage.  The handlers run concurrently (one goroutine per   *)
(* request) and share the temp directory; a step of a handler is one file  *)
(* operation or one external call.  Here pc, calls, result, elementIDs,    *)
(* imagesToRemove, currentFile and tempFiles hold one value per request;   *)
(* currentFile of a preview request is its pdfFile.  The uniqueID of a     *)
(* request (generateUniqueID: the nanosecond clock and 8 random bytes) is  *)
(* its number.                                                             *)
(***************************************************************************)
MaxRequests == 3    \* requests in flight
MaxChain == 2       \* most occurrences on a removal list of the server
MaxRemovals == 2    \* most removal requests among the requests in flight

Requests == 1..MaxRequests

\* handlers.go:269-270, 107, 174; remove_elements.go:384; analyze.go:942-945
InputOf(r) == <<"input", r>>
OutputOf(r) == <<"output", r>>
TempOf(i, r) == <<"temp", i, r>>
AnalysisOf(id) == <<"analysis", id>>
PreviewOf(elementID) == <<"preview", elementID>>
ExtractDirOf(elementID) == <<"extract", elementID>>
ExtractedOf(elementID) == <<"extract", elementID, "image">>

\* the element_id values of the preview requests
PreviewIDs == {<<"a">>, <<"b">>, BogusID}

E_NotFound == "PDF file not found"
E_ElementNotFound == "Element not found in analysis"
E_Extract == "Failed to extract image"
E_NoOutput == "PDF operation did not produce output file"
E_NotServed == "preview file not found"

\* an external call can succeed only when the files it reads exist
Statuses(inputs) == IF inputs \subseteq files THEN {"ok", "failed"} ELSE {"failed"}

At(r, label) == pc[r] = label
Goto(r, label) == pc' = [pc EXCEPT ![r] = label]
Returns(r, err) == result' = [result EXCEPT ![r] = err]
Called(r, made) == calls' = [calls EXCEPT ![r] = calls[r] \o made]

serverFixed == <<docVars, pageVars, elementType, candidates, allImageOccurrences, resolved>>

\* the handlers in the order analysis, preview, removal
HandlerRank(entry) == CASE entry = "ha_save" -> 1 [] entry = "pv_stat" -> 2 [] entry = "sr_save" -> 3

\* the requests are numbered in the order of their handlers: the number of a
\* request is only its name
InitServer ==
    /\ pc \in [Requests -> {"sr_save", "ha_save", "pv_stat"}]
    /\ \A r \in 1..(MaxRequests - 1) : HandlerRank(pc[r]) <= HandlerRank(pc[r + 1])
    /\ Cardinality({r \in Requests : pc[r] = "sr_save"}) <= MaxRemovals
    /\ files = {}
    /\ calls = [r \in Requests |-> <<>>]
    /\ result = [r \in Requests |-> "none"]
    /\ totalPages = 1
    /\ listing = <<>>
    /\ report = <<>> /\ allImages = <<>> /\ signatures = <<>>
    /\ pages = <<>>
    /\ pageNumbers = [err |-> "", list |-> <<>>]
    /\ elementType = "image"
    /\ elementIDs \in [Requests -> PreviewIDs]
    /\ \A r \in Requests : pc[r] # "pv_stat" => elementIDs[r] = BogusID
    /\ candidates = <<>>
    /\ allImageOccurrences = <<>>
    /\ resolved = <<>>
    /\ imagesToRemove = [r \in Requests |-> <<>>]
    /\ currentFile = [r \in Requests |-> NoFile]
    /\ tempFiles = [r \in Requests |-> <<>>]

\* handlers.go:268-284 (handlePDFFile): the upload is saved as input_<id>.pdf
SR_Save(r) ==
    /\ At(r, "sr_save")
    /\ files' = files \cup {InputOf(r)}
    /\ Goto(r, "sr_analyze")
    /\ UNCHANGED <<calls, result, serverFixed, elementIDs, imagesToRemove, currentFile, tempFiles>>

\* the removal lists of the server: one to MaxChain occurrences
RemovalLists == {[i \in 1..n |-> Occurrence(i, Itoa(4 + i), S_Im0)] : n \in 1..MaxChain}

\* remove_elements.go:96-363: the analysis, the listing and the resolution
\* of removeImagesByIDs, all reading the request's input file
SR_Analyze(r) ==
    /\ At(r, "sr_analyze")
    /\ \/ /\ Called(r, <<Call("info", InputOf(r), NoFile, <<>>, "failed", {})>>)
          /\ Returns(r, E_Analyze) /\ Goto(r, "sr_fallback")
          /\ UNCHANGED imagesToRemove
       \/ /\ "ok" \in Statuses({InputOf(r)})
          /\ Called(r, <<Call("info", InputOf(r), NoFile, <<>>, "ok", {}),
                       Call("images list", InputOf(r), NoFile, <<>>, "ok", {}),
                       Call("images list", InputOf(r), NoFile, <<>>, "ok", {})>>)
          /\ \/ /\ Returns(r, E_NoMatch) /\ Goto(r, "sr_fallback")
                /\ UNCHANGED imagesToRemove
             \/ /\ \E toRemove \in RemovalLists :
                      imagesToRemove' = [imagesToRemove EXCEPT ![r] = toRemove]
                /\ Goto(r, "sr_blank")
                /\ UNCHANGED result
    /\ UNCHANGED <<files, serverFixed, elementIDs, currentFile, tempFiles>>

\* remove_elements.go:366-375, 435-460: createBlankImage writes
\* blank_1x1.png in the directory of the output file
SR_CreateBlank(r) ==
    /\ At(r, "sr_blank")
    /\ \/ /\ Returns(r, E_Blank) /\ Goto(r, "sr_fallback")
          /\ UNCHANGED <<files, currentFile>>
       \/ /\ files' = files \cup {Blank}
          /\ currentFile' = [currentFile EXCEPT ![r] = InputOf(r)]
          /\ Goto(r, "sr_update")
          /\ UNCHANGED result
    /\ UNCHANGED <<calls, serverFixed, elementIDs, imagesToRemove, tempFiles>>

\* remove_elements.go:377-431: one turn of the loop over imagesToRemove,
\* pdfcpu images update currentFile blank tempFile selector, with the
\* clean-up of its return paths and the deferred removal of the blank
SR_Update(r) ==
    /\ At(r, "sr_update")
    /\ LET n        == Len(imagesToRemove[r])
           i        == Len(tempFiles[r])
           tempFile == IF i = n - 1 THEN OutputOf(r) ELSE TempOf(i, r)
           temps    == IF i = n - 1 THEN tempFiles[r] ELSE Append(tempFiles[r], tempFile)
       IN \E status \in Statuses({currentFile[r], Blank}) :
             /\ Called(r, <<Call("images update", currentFile[r], tempFile,
                                    SelectorOf(imagesToRemove[r][i + 1]), status, {})>>)
             /\ IF status # "ok"
                THEN /\ \E written \in {files, files \cup {tempFile}} :
                            files' = (written \ Range(temps)) \ {Blank}
                     /\ Returns(r, E_Update) /\ Goto(r, "sr_fallback")
                     /\ tempFiles' = [tempFiles EXCEPT ![r] = <<>>]
                     /\ UNCHANGED currentFile
                ELSE IF i = n - 1
                THEN /\ files' = ((files \cup {tempFile}) \ Range(temps)) \ {Blank}
                     /\ Returns(r, "") /\ Goto(r, "sr_respond")
                     /\ tempFiles' = [tempFiles EXCEPT ![r] = <<>>]
                     /\ UNCHANGED currentFile
                ELSE /\ files' = files \cup {tempFile}
                     /\ currentFile' = [currentFile EXCEPT ![r] = tempFile]
                     /\ tempFiles' = [tempFiles EXCEPT ![r] = temps]
                     /\ UNCHANGED <<pc, result>>
    /\ UNCHANGED <<serverFixed, elementIDs, imagesToRemove>>

\* handlers.go:239-243: RemoveElementFromPDF(inFile, outFile, "watermark")
\* after a failed image removal (remove_elements.go:34-75): pdfcpu watermark
\* remove and, when that reports nothing found, pdfcpu stamp remove
SR_Fallback(r) ==
    /\ At(r, "sr_fallback")
    /\ \E status \in Statuses({InputOf(r)}) :
       \E said \in (IF status = "ok" THEN {{}} ELSE {{}, {NoWatermarksFound}}) :
       \E stamp \in Statuses({InputOf(r)}) :
       \E stampSaid \in (IF stamp = "ok" THEN {{}} ELSE {{}, {NoStampsFound}}) :
          LET primary == Call("watermark remove", InputOf(r), OutputOf(r), <<>>, status, said)
              second  == Call("stamp remove", InputOf(r), OutputOf(r), <<>>, stamp, stampSaid)
          IN IF status = "ok"
             THEN /\ stamp = "failed" /\ stampSaid = {}
                  /\ Called(r, <<primary>>)
                  /\ files' = files \cup {OutputOf(r)} /\ Returns(r, "")
             ELSE IF ~ReportsNothingFound(said)
             THEN /\ stamp = "failed" /\ stampSaid = {}
                  /\ Called(r, <<primary>>)
                  /\ files' \in {files, files \cup {OutputOf(r)}}
                  /\ Returns(r, E_WatermarkFailed)
             ELSE /\ Called(r, <<primary, second>>)
                  /\ IF stamp = "ok"
                     THEN files' = files \cup {OutputOf(r)} /\ Returns(r, "")
                     ELSE /\ files' \in {files, files \cup {OutputOf(r)}}
                          /\ Returns(r, IF StampReportsNothingFound(stampSaid)
                                        THEN E_Unsupported ELSE E_StampFailed)
    /\ Goto(r, "sr_respond")
    /\ UNCHANGED <<serverFixed, elementIDs, imagesToRemove, currentFile, tempFiles>>

\* the request is over: the locals of its handler are gone
Closes(r) ==
    /\ Goto(r, "closed")
    /\ calls' = [calls EXCEPT ![r] = <<>>]
    /\ imagesToRemove' = [imagesToRemove EXCEPT ![r] = <<>>]
    /\ currentFile' = [currentFile EXCEPT ![r] = NoFile]

\* handlers.go:287-345: the response of handlePDFFile; after an error the
\* input and output files are removed at once, after the download they are
\* left to the delayed clean-up
SR_Respond(r) ==
    /\ At(r, "sr_respond")
    /\ IF result[r] # ""
       THEN /\ files' = files \ {InputOf(r), OutputOf(r)}
            /\ Closes(r) /\ UNCHANGED result
       ELSE IF OutputOf(r) \notin files
       THEN /\ files' = files \ {InputOf(r)}
            /\ Closes(r) /\ Returns(r, E_NoOutput)
       ELSE /\ Goto(r, "sr_sent")
            /\ UNCHANGED <<files, result, calls, imagesToRemove, currentFile>>
    /\ UNCHANGED <<serverFixed, elementIDs, tempFiles>>

\* handlers.go:338-345: the goroutine that removes both files after
\* FileCleanupDelay
SR_Cleanup(r) ==
    /\ At(r, "sr_sent")
    /\ files' = files \ {InputOf(r), OutputOf(r)}
    /\ Closes(r)
    /\ UNCHANGED <<result, serverFixed, elementIDs, tempFiles>>

\* handlers.go:106-121: the upload is saved as analysis_<id>.pdf
HA_Save(r) ==
    /\ At(r, "ha_save")
    /\ files' = files \cup {AnalysisOf(r)}
    /\ Goto(r, "ha_analyze")
    /\ UNCHANGED <<calls, result, serverFixed, elementIDs, imagesToRemove, currentFile, tempFiles>>

\* handlers.go:123-148: AnalyzeUnwantedElements and the response, which
\* carries pdf_file_id; either way the clean-up goroutine is started
HA_Analyze(r) ==
    /\ At(r, "ha_analyze")
    /\ \E status \in Statuses({AnalysisOf(r)}) :
          /\ Called(r, <<Call("info", AnalysisOf(r), NoFile, <<>>, "ok", {}),
                       Call("images list", AnalysisOf(r), NoFile, <<>>, status, {})>>)
          /\ Returns(r, IF status = "ok" THEN "" ELSE E_Analyze)
    /\ Goto(r, "ha_sent")
    /\ UNCHANGED <<files, serverFixed, elementIDs, imagesToRemove, currentFile, tempFiles>>

\* handlers.go:128-131, 152-158: os.Remove(inFile) after AnalysisCleanupDelay
HA_Cleanup(r) ==
    /\ At(r, "ha_sent")
    /\ files' = files \ {AnalysisOf(r)}
    /\ Closes(r)
    /\ UNCHANGED <<result, serverFixed, elementIDs, tempFiles>>

\* handlers.go:163-180: the file analysis_<pdf_file_id>.pdf is looked up
PV_Stat(r) ==
    /\ At(r, "pv_stat")
    /\ \E pdfFileID \in Requests :
          /\ currentFile' = [currentFile EXCEPT ![r] = AnalysisOf(pdfFileID)]
          /\ IF AnalysisOf(pdfFileID) \notin files
             THEN Returns(r, E_NotFound) /\ Goto(r, "closed")
             ELSE Goto(r, "pv_analyze") /\ UNCHANGED result
    /\ UNCHANGED <<files, calls, serverFixed, elementIDs, imagesToRemove, tempFiles>>

\* handlers.go:182-201: the re-analysis of the file and the search for the
\* element among its candidates
PV_Analyze(r) ==
    /\ At(r, "pv_analyze")
    /\ \E status \in Statuses({currentFile[r]}) :
          /\ Called(r, <<Call("info", currentFile[r], NoFile, <<>>, status, {})>>
                       \o (IF status = "ok"
                           THEN <<Call("images list", currentFile[r], NoFile, <<>>, "ok", {})>>
                           ELSE <<>>))
          /\ IF status # "ok" THEN Returns(r, E_Analyze) /\ Goto(r, "closed")
             ELSE IF elementIDs[r] = BogusID
             THEN Returns(r, E_ElementNotFound) /\ Goto(r, "closed")
             ELSE Goto(r, "pv_extract") /\ UNCHANGED result
    /\ UNCHANGED <<files, serverFixed, elementIDs, imagesToRemove, currentFile, tempFiles>>

\* analyze.go:936-956 (ExtractImagePreview): the directory
\* extract_<element_id> is made and pdfcpu extract fills it; on an error
\* the deferred RemoveAll runs
PV_Extract(r) ==
    /\ At(r, "pv_extract")
    /\ \E status \in Statuses({currentFile[r]}) :
          /\ Called(r, <<Call("extract", currentFile[r], ExtractDirOf(elementIDs[r]),
                              <<>>, status, {})>>)
          /\ IF status = "ok"
             THEN /\ files' = files \cup {ExtractDirOf(elementIDs[r]), ExtractedOf(elementIDs[r])}
                  /\ Goto(r, "pv_collect") /\ UNCHANGED result
             ELSE /\ files' = files \ {ExtractDirOf(elementIDs[r]), ExtractedOf(elementIDs[r])}
                  /\ Returns(r, E_Extract) /\ Goto(r, "closed")
    /\ UNCHANGED <<serverFixed, elementIDs, imagesToRemove, currentFile, tempFiles>>

\* analyze.go:958-1007: the extracted image is looked up in the directory
\* and copied to preview_<element_id>.png; the deferred RemoveAll removes
\* the directory
PV_Collect(r) ==
    /\ At(r, "pv_collect")
    /\ IF ExtractedOf(elementIDs[r]) \in files
       THEN /\ files' = (files \cup {PreviewOf(elementIDs[r])})
                            \ {ExtractDirOf(elementIDs[r]), ExtractedOf(elementIDs[r])}
            /\ Goto(r, "pv_serve") /\ UNCHANGED result
       ELSE /\ files' = files \ {ExtractDirOf(elementIDs[r])}
            /\ Returns(r, E_Extract) /\ Goto(r, "closed")
    /\ UNCHANGED <<calls, serverFixed, elementIDs, imagesToRemove, currentFile, tempFiles>>

\* handlers.go:211-218: c.File(previewPath), then the goroutine that
\* removes the preview after five minutes is started
PV_Serve(r) ==
    /\ At(r, "pv_serve")
    /\ Returns(r, IF PreviewOf(elementIDs[r]) \in files THEN "" ELSE E_NotServed)
    /\ Goto(r, "pv_sent")
    /\ UNCHANGED <<files, calls, serverFixed, elementIDs, imagesToRemove, currentFile, tempFiles>>

\* handlers.go:215-218: os.Remove(previewPath)
PV_Cleanup(r) ==
    /\ At(r, "pv_sent")
    /\ files' = files \ {PreviewOf(elementIDs[r])}
    /\ Closes(r)
    /\ UNCHANGED <<result, serverFixed, elementIDs, tempFiles>>

NextServer ==
    \E r \in Requests :
        \/ SR_Save(r) \/ SR_Analyze(r) \/ SR_CreateBlank(r) \/ SR_Update(r)
        \/ SR_Fallback(r) \/ SR_Respond(r) \/ SR_Cleanup(r)
        \/ HA_Save(r) \/ HA_Analyze(r) \/ HA_Cleanup(r)
        \/ PV_Stat(r) \/ PV_Analyze(r) \/ PV_Extract(r) \/ PV_Collect(r)
        \/ PV_Serve(r) \/ PV_Cleanup(r)

SpecServer == InitServer /\ [][NextServer]_vars

(***************************************************************************)
(* Properties of the temp files of concurrent requests.                    *)
(***************************************************************************)
\* the handler of the request has not returned yet
InFlight(r) ==
    pc[r] \in {"sr_analyze", "sr_blank", "sr_update", "sr_fallback", "sr_respond",
               "ha_analyze", "pv_analyze", "pv_extract", "pv_collect", "pv_serve"}

\* the temp paths the request has created, or has been given a name for,
\* and has not yet released: its input, output and chain files, the blank
\* placeholder, the extract directory and the preview
PathsOf(r) ==
    CASE pc[r] \in {"sr_analyze", "sr_blank", "sr_fallback", "sr_respond"} ->
             {InputOf(r), OutputOf(r)}
      [] pc[r] = "sr_update" ->
             {InputOf(r), OutputOf(r), Blank} \cup Range(tempFiles[r])
      [] pc[r] = "ha_analyze" -> {AnalysisOf(r)}
      [] pc[r] = "pv_collect" ->
             {ExtractDirOf(elementIDs[r]), ExtractedOf(elementIDs[r]), PreviewOf(elementIDs[r])}
      [] pc[r] = "pv_serve" -> {PreviewOf(elementIDs[r])}
      [] OTHER -> {}

\* the files the next step of the request reads
NeededBy(r) ==
    CASE pc[r] \in {"sr_analyze", "sr_blank", "sr_fallback"} -> {InputOf(r)}
      [] pc[r] = "sr_update" -> {currentFile[r], Blank}
      [] pc[r] = "ha_analyze" -> {AnalysisOf(r)}
      [] pc[r] = "pv_collect" -> {ExtractedOf(elementIDs[r])}
      [] pc[r] = "pv_serve" -> {PreviewOf(elementIDs[r])}
      [] OTHER -> {}

NoSharedPath ==
    \A r, q \in Requests : (r # q /\ InFlight(r) /\ InFlight(q)) => PathsOf(r) \cap PathsOf(q) = {}

NoNeededFileRemoved == \A r \in Requests : InFlight(r) => NeededBy(r) \subseteq files

\* C26: two requests in flight never use the same temp path (input, output,
\* chain files, the blank placeholder, extract and preview paths), and no
\* file a request in flight still needs has been removed by another
\* request's clean-up.
C26_RequestsUseOwnTempFiles == NoSharedPath /\ NoNeededFileRemoved

\* C27: the analysis file a preview request has found is still there when
\* the request re-analyses it and when it extracts the image from it,
\* whatever the delayed clean-up of the analysis request does meanwhile.
C27_FoundFileOutlivesPreview ==
    \A r \in Requests :
        pc[r] \in {"pv_analyze", "pv_extract"} => currentFile[r] \in files

(***************************************************************************)
(* Properties of the response of a remove-selected-elements request.       *)
(***************************************************************************)
\* the request has had a successful update call for the occurrence
UpdatedFor(r, img) ==
    \E k \in 1..Len(calls[r]) :
        /\ calls[r][k].cmd = "images update"
        /\ calls[r][k].status = "ok"
        /\ calls[r][k].arg = SelectorOf(img)

\* the response is the download of the output file
Succeeded(r) == pc[r] = "sr_sent" /\ result[r] = ""

\* C30: a remove-selected-elements request that answers with the output
\* document has resolved at least one occurrence and has had a successful
\* update call for every resolved occurrence; a failed selective removal
\* is never answered with a document.
C30_SuccessMeansAllUpdated ==
    \A r \in Requests :
        Succeeded(r) =>
            /\ imagesToRemove[r] # <<>>
            /\ \A i \in 1..Len(imagesToRemove[r]) : UpdatedFor(r, imagesToRemove[r][i])

(***************************************************************************)
(* Properties of the update calls of removeImagesByIDs.                    *)
(***************************************************************************)
\* the occurrence is an image of the candidate's group
InGroupOf(o, c, images) ==
    \E r \in GroupOf(c, images) :
        r.page = o.page /\ r.img.obj = o.obj /\ r.img.id = o.id

\* the occurrence is an image of the group of some selected candidate
InSelectedGroup(o) ==
    \E c \in Range(candidates) :
        IsSelected(c) /\ InGroupOf(o, c, AnalysedImages(listing))

\* the occurrences on the removal list that have had their update call
UpdatedOccurrences == SubSeq(imagesToRemove, 1, Len(UpdateCalls))

\* C28: every update call of removeImagesByIDs is for an occurrence of the
\* group of some selected candidate; an image of another size key or
\* signature is never replaced.
C28_UpdatesOnlyInSelectedGroups ==
    (elementType = "image") =>
        \A k \in 1..Len(UpdatedOccurrences) : InSelectedGroup(UpdatedOccurrences[k])

\* C29: no occurrence is given two update calls in one run, and after a
\* successful run the number of update calls is the number of distinct
\* resolved occurrences.
C29_OneUpdatePerOccurrence ==
    (elementType = "image") =>
        /\ \A j, k \in 1..Len(UpdatedOccurrences) :
               UpdatedOccurrences[j] = UpdatedOccurrences[k] => j = k
        /\ (pc = "done" /\ result = "") =>
               Len(UpdateCalls) = Cardinality(UNION {Range(resolved[i].found) : i \in 1..Len(resolved)})

====
